---------------------------- MODULE Spec2Model ----------------------------
(* A model of dotgo-transcode: the resolution decision engine of package   *)
(* scaler (SelectPreset, AdjustResolution over the StandardPresets         *)
(* catalog) and the concurrent encode dispatcher of package transcoder     *)
(* (Transcode).  Strings that the code normalises or formats are modelled  *)
(* as sequences of one-character strings, so that trimming, lower-casing   *)
(* and key formatting are computed rather than assumed.                    *)
EXTENDS Integers, Sequences, FiniteSets, TLC

(***************************************************************************)
(* Bounds of the model                                                     *)
(***************************************************************************)
\* RecentFailures ranges over 0..MaxFailures: stable (0), the band below the
\* instability threshold (1, 2) and the threshold itself and above
MaxFailures == 3

(***************************************************************************)
(* Strings                                                                 *)
(***************************************************************************)
Space == {" ", "\t"}

UpperToLower == [c \in {"P", "K"} |-> IF c = "P" THEN "p" ELSE "k"]

RECURSIVE TrimLeft(_)
TrimLeft(s) ==
  IF s # <<>> /\ Head(s) \in Space THEN TrimLeft(Tail(s)) ELSE s

RECURSIVE TrimRight(_)
TrimRight(s) ==
  IF s # <<>> /\ s[Len(s)] \in Space
  THEN TrimRight(SubSeq(s, 1, Len(s) - 1))
  ELSE s

\* strings.TrimSpace
TrimSpace(s) == TrimRight(TrimLeft(s))

\* strings.ToLower
ToLower(s) ==
  [i \in 1..Len(s) |->
     IF s[i] \in DOMAIN UpperToLower THEN UpperToLower[s[i]] ELSE s[i]]

\* scaler.NormalizeLabel
NormalizeLabel(label) == ToLower(TrimSpace(label))

(***************************************************************************)
(* The rendition catalog                                                   *)
(***************************************************************************)
Preset(w, h, label, minBitrate, isDefault) ==
  [Width |-> w, Height |-> h, Label |-> label,
   MinBitrate |-> minBitrate, IsDefault |-> isDefault]

\* the value the package initialises StandardPresets with
ShippedPresets ==
  << Preset(3840, 2160, <<"2","1","6","0","p">>, 12000, FALSE),
     Preset(2560, 1440, <<"1","4","4","0","p">>, 8000, FALSE),
     Preset(1920, 1080, <<"1","0","8","0","p">>, 5000, TRUE),
     Preset(1280, 720, <<"7","2","0","p">>, 2500, FALSE),
     Preset(854, 480, <<"4","8","0","p">>, 1000, FALSE),
     Preset(640, 360, <<"3","6","0","p">>, 600, FALSE),
     Preset(426, 240, <<"2","4","0","p">>, 300, FALSE) >>

\* a ResolutionPreset value that is no catalog entry
NoPreset == Preset(0, 0, <<>>, 0, FALSE)

\* the nil *ClientContext
NilCtx == [nil |-> TRUE]

\* scaler.IsUpscale
IsUpscale(sourceWidth, sourceHeight, targetWidth, targetHeight) ==
  targetWidth > sourceWidth \/ targetHeight > sourceHeight

\* the least element of a non-empty set of indices: the first hit of a loop
Min(S) == CHOOSE i \in S : \A j \in S : i <= j
Max(S) == CHOOSE i \in S : \A j \in S : i >= j

(***************************************************************************)
(* scaler.SelectPreset                                                     *)
(***************************************************************************)
\* the presets of cat that the first loop does not skip
Survives(cat, i, sourceWidth, sourceHeight, c) ==
  /\ ~ (IsUpscale(sourceWidth, sourceHeight, cat[i].Width, cat[i].Height)
          /\ (c = NilCtx \/ ~ c.PreferUpscale))
  /\ ~ (c # NilCtx /\ c.BandwidthKbps > 0
          /\ cat[i].MinBitrate > c.BandwidthKbps)

\* a second loop that finds no default
Fallback_Error(cat) ==
  [Preset |-> NoPreset, err |-> TRUE, fallback |-> TRUE]

\* the second loop: the first preset marked default, or the error
Fallback(cat) ==
  LET D == {i \in 1..Len(cat) : cat[i].IsDefault}
  IN  IF D # {}
      THEN [Preset |-> cat[Min(D)], err |-> FALSE, fallback |-> TRUE]
      ELSE [Preset |-> NoPreset, err |-> TRUE, fallback |-> TRUE]

\* a loop that keeps overwriting its pick and so returns the last hit
FirstForward_Last(S) == Max(S)

\* `for _, preset := range StandardPresets` returns at its first hit
FirstForward(S) == Min(S)

\* the downgrade loop run forward, like the other loops
FirstBackward_Forward(S) == Min(S)

\* `for i := len(StandardPresets) - 1; i >= 0; i--` returns at its first hit
FirstBackward(S) == Max(S)

SelectPreset(cat, sourceWidth, sourceHeight, c) ==
  LET S == {i \in 1..Len(cat) : Survives(cat, i, sourceWidth, sourceHeight, c)}
  IN  IF S # {}
      THEN [Preset |-> cat[FirstForward(S)], err |-> FALSE, fallback |-> FALSE]
      ELSE Fallback(cat)

(***************************************************************************)
(* scaler.AdjustResolution                                                 *)
(***************************************************************************)
\* indices of the presets whose normalised label equals the normalised override
OverrideMatches(cat, c) ==
  {i \in 1..Len(cat) :
     NormalizeLabel(cat[i].Label) = NormalizeLabel(c.ManualOverride)}

\* a downgrade scan that looks at the height only
DowngradeHits_IgnoresBudget(cat, current, c) ==
  {i \in 1..Len(cat) : cat[i].Height < current.Height}

\* the presets the downgrade loop accepts
DowngradeHits(cat, current, c) ==
  {i \in 1..Len(cat) :
     cat[i].MinBitrate <= c.BandwidthKbps /\ cat[i].Height < current.Height}

\* the presets the upgrade loop accepts
UpgradeHits(cat, current, c) ==
  {i \in 1..Len(cat) :
     cat[i].MinBitrate <= c.BandwidthKbps /\ cat[i].Height > current.Height}

\* an upgrade loop run from the smallest preset upward
UpgradePick_NearestStep(S) == Max(S)

\* `for _, p := range StandardPresets` in the upgrade branch: the first hit
UpgradePick(S) == Min(S)

\* the drop threshold lowered to one failure
AdjustResolution_NoHysteresis(cat, current, c) ==
  LET M == OverrideMatches(cat, c)
      D == DowngradeHits(cat, current, c)
      U == UpgradeHits(cat, current, c)
  IN  IF c.ManualOverride # <<>> /\ M # {} THEN cat[FirstForward(M)]
      ELSE IF ~ c.AdaptiveEnabled THEN current
      ELSE IF c.RecentFailures >= 1 /\ D # {} THEN cat[FirstBackward(D)]
      ELSE IF c.RecentFailures = 0 /\ U # {} THEN cat[UpgradePick(U)]
      ELSE current

\* the adaptive switch tested before the manual override
AdjustResolution_AdaptiveFirst(cat, current, c) ==
  LET M == OverrideMatches(cat, c)
      D == DowngradeHits(cat, current, c)
      U == UpgradeHits(cat, current, c)
  IN  IF ~ c.AdaptiveEnabled THEN current
      ELSE IF c.ManualOverride # <<>> /\ M # {} THEN cat[FirstForward(M)]
      ELSE IF c.RecentFailures >= 3 /\ D # {} THEN cat[FirstBackward(D)]
      ELSE IF c.RecentFailures = 0 /\ U # {} THEN cat[UpgradePick(U)]
      ELSE current

AdjustResolution(cat, current, c) ==
  LET M == OverrideMatches(cat, c)
      D == DowngradeHits(cat, current, c)
      U == UpgradeHits(cat, current, c)
  IN  IF c.ManualOverride # <<>> /\ M # {} THEN cat[FirstForward(M)]
      ELSE IF ~ c.AdaptiveEnabled THEN current
      ELSE IF c.RecentFailures >= 3 /\ D # {} THEN cat[FirstBackward(D)]
      ELSE IF c.RecentFailures = 0 /\ U # {} THEN cat[UpgradePick(U)]
      ELSE current

(***************************************************************************)
(* Inputs of the decision engine                                           *)
(***************************************************************************)
\* bandwidth estimates in kbps: absent, below every MinBitrate, and thresholds
Bandwidths == {0, 250, 1000, 5000, 12000}

\* source sizes: below every preset, catalog sizes, and a portrait source
Sources ==
  { <<320, 200>>, <<426, 240>>, <<1280, 720>>, <<1920, 1080>>,
    <<3840, 2160>>, <<1080, 1920>> }

\* ManualOverride values: unset, exact, padded and upper-cased, unknown, blank
Overrides ==
  { <<>>,
    <<"1","0","8","0","p">>,
    <<" ","7","2","0","P","\t">>,
    <<"4","K">>,
    <<" "," ">> }

\* presets a caller may hold: the catalog's and two of its own
PresetInputs ==
  {ShippedPresets[i] : i \in 1..Len(ShippedPresets)}
    \cup { Preset(256, 144, <<"1","4","4","p">>, 150, FALSE),
           Preset(7680, 4320, <<"4","3","2","0","p">>, 40000, FALSE) }

\* the zero value of ClientContext (DeviceType and AllowLowRes are read by
\* neither SelectPreset nor AdjustResolution and are left out)
ZeroCtx ==
  [BandwidthKbps |-> 0, PreferUpscale |-> FALSE, ManualOverride |-> <<>>,
   RecentFailures |-> 0, AdaptiveEnabled |-> FALSE]

NoCall ==
  [op |-> "none", srcW |-> 0, srcH |-> 0, nilCtx |-> FALSE,
   in |-> NoPreset, out |-> NoPreset, err |-> FALSE, fallback |-> FALSE]

(***************************************************************************)
(* State                                                                   *)
(***************************************************************************)
VARIABLES
  StandardPresets,  \* the package-level catalog slice of package scaler
  ctx,              \* the caller's ClientContext
  current,          \* the preset the caller holds
  call,             \* the decision-engine call that just returned, if any
  profile,          \* Transcode: the profile's ladder
  slug,             \* Transcode: the input file's base name, extension cut
  media,            \* Transcode: the source's MediaInfo (Width, Height)
  revision,         \* Transcode: which revision of Transcode runs
  tpc,              \* Transcode: position of the calling goroutine
  allowed,          \* Transcode: the ladder entries the filter kept
  workers,          \* Transcode: the variant each launched goroutine got
  wpc,              \* Transcode: position of each worker goroutine
  seen,             \* Transcode: the duplicate guard (set of keys)
  seenMu,           \* Transcode: holder of the mutex, 0 when free
  result,           \* Transcode: the TranscodeResult being filled
  scan,             \* Transcode: entries of allowed the passthrough loop has seen
  filtered,         \* Transcode: the entries the passthrough loop left to encode
  cmdErr,           \* Transcode: what the encoder returned to each goroutine
  progressMap,      \* Transcode: the percentage last reported for each key
  progressMu,       \* Transcode: holder of the progress mutex, 0 when free
  ticker,           \* Transcode: position of the progress-logging goroutine
  done,             \* Transcode: how often the channel `done` was closed
  reader,           \* RunCommandWithProgress: position of each stderr reader
  transcoded,       \* SegmentMedia: the *TranscodeResult it is given
  format,           \* SegmentMedia: the stream format it is given
  spc,              \* SegmentMedia: position of the calling goroutine
  swpc,             \* SegmentMedia: position of each worker goroutine
  mu,               \* SegmentMedia: holder of the mutex, 0 when free
  segResult,        \* SegmentMedia: the SegmentResult being filled
  segErr,           \* SegmentMedia: stage of the error it returned, if any
  mediaInfo,        \* SegmentMedia: what AnalyzeMedia gave each goroutine
  cmd,              \* SegmentMedia: the command each goroutine built
  dirs,             \* the segment directories created under the output dir
  master,           \* the master.m3u8 of the output directory
  seg,              \* GenerateMasterManifest: the *SegmentResult it is given
  preserve,         \* GenerateMasterManifest: the profile's PreserveManifest
  manRevision,      \* GenerateMasterManifest: which revision of dash.go runs
  mcall             \* GenerateMasterManifest: the call that just returned

scalerVars == <<StandardPresets, ctx, current, call>>

\* the progress map, its mutex, the goroutine that logs the average and the
\* goroutines that report into the map
progressVars == <<progressMap, progressMu, ticker, done, reader>>

transcodeVars ==
  <<profile, slug, media, revision, tpc, allowed, workers, wpc, seen, seenMu,
    result, scan, filtered, cmdErr, progressVars>>

segmentVars ==
  <<transcoded, format, spc, swpc, mu, segResult, segErr, mediaInfo, cmd,
    dirs>>

manifestVars == <<master, seg, preserve, manRevision, mcall>>

\* the stages after Transcode
downstreamVars == <<segmentVars, manifestVars>>

vars == <<scalerVars, transcodeVars, segmentVars, manifestVars>>

\* the slug of the input file name in the runs that do not vary it
Slug == <<"m","o","v">>

\* no TranscodeResult yet: Transcode returns (nil, err) until it builds one
NoResult == [Success |-> FALSE, Variants |-> <<>>, Errors |-> <<>>, nil |-> TRUE]

\* no SegmentResult: SegmentMedia returns (nil, err) when it rejects its input
NoSegResult ==
  [nil |-> TRUE, Format |-> <<>>, Success |-> FALSE, Manifests |-> <<>>,
   Errors |-> <<>>]

\* no *TranscodeResult
NoTranscoded == [nil |-> TRUE, Variants |-> <<>>, SegmentLength |-> 0]

\* no master.m3u8 in the output directory
NoFile == [exists |-> FALSE, lines |-> <<>>]

\* GenerateMasterManifest has not returned
NoManifestCall ==
  [op |-> "none", path |-> <<>>, err |-> "none", existing |-> NoFile,
   repeat |-> FALSE]

\* an output directory without master.m3u8 and master.mpd
NoMaster == [m3u8 |-> NoFile, mpd |-> NoFile]

(***************************************************************************)
(* The decision engine as its callers drive it (cmd/transcode main)        *)
(***************************************************************************)
\* before Transcode has made the map and launched the logging goroutine
ProgressIdle ==
  /\ progressMap = <<>>
  /\ progressMu = 0
  /\ ticker = "none"
  /\ done = 0
  /\ reader = <<>>

TranscodeIdle ==
  /\ ProgressIdle
  /\ profile = <<>>
  /\ slug = Slug
  /\ media = [Width |-> 0, Height |-> 0]
  /\ revision = "none"
  /\ tpc = "idle"
  /\ allowed = <<>>
  /\ workers = <<>>
  /\ wpc = <<>>
  /\ seen = {}
  /\ seenMu = 0
  /\ result = NoResult
  /\ scan = 0
  /\ filtered = <<>>
  /\ cmdErr = <<>>

SegmentIdle ==
  /\ transcoded = NoTranscoded
  /\ format = <<>>
  /\ spc = "idle"
  /\ swpc = <<>>
  /\ mu = 0
  /\ segResult = NoSegResult
  /\ segErr = "none"
  /\ mediaInfo = <<>>
  /\ cmd = <<>>
  /\ dirs = {}

ManifestIdle ==
  /\ master = NoMaster
  /\ seg = NoSegResult
  /\ preserve = FALSE
  /\ manRevision = "none"
  /\ mcall = NoManifestCall

InitScaler ==
  /\ StandardPresets = ShippedPresets
  /\ ctx = ZeroCtx
  /\ current \in PresetInputs
  /\ call = NoCall
  /\ TranscodeIdle
  /\ SegmentIdle
  /\ ManifestIdle

\* the caller rewrites a field of its context between calls
SetBandwidth(b) ==
  /\ b # ctx.BandwidthKbps
  /\ ctx' = [ctx EXCEPT !.BandwidthKbps = b]
  /\ call' = NoCall
  /\ UNCHANGED <<StandardPresets, current, transcodeVars, downstreamVars>>

SetRecentFailures(n) ==
  /\ n # ctx.RecentFailures
  /\ ctx' = [ctx EXCEPT !.RecentFailures = n]
  /\ call' = NoCall
  /\ UNCHANGED <<StandardPresets, current, transcodeVars, downstreamVars>>

SetManualOverride(o) ==
  /\ o # ctx.ManualOverride
  /\ ctx' = [ctx EXCEPT !.ManualOverride = o]
  /\ call' = NoCall
  /\ UNCHANGED <<StandardPresets, current, transcodeVars, downstreamVars>>

SetAdaptiveEnabled ==
  /\ ctx' = [ctx EXCEPT !.AdaptiveEnabled = ~ ctx.AdaptiveEnabled]
  /\ call' = NoCall
  /\ UNCHANGED <<StandardPresets, current, transcodeVars, downstreamVars>>

SetPreferUpscale ==
  /\ ctx' = [ctx EXCEPT !.PreferUpscale = ~ ctx.PreferUpscale]
  /\ call' = NoCall
  /\ UNCHANGED <<StandardPresets, current, transcodeVars, downstreamVars>>

\* initialPreset, err := scaler.SelectPreset(media.Width, media.Height, &ctx)
\* (or with a nil context); the caller keeps the decision's preset
SelectPresetCall(src, useNil) ==
  LET d == SelectPreset(StandardPresets, src[1], src[2],
                        IF useNil THEN NilCtx ELSE ctx)
  IN  /\ call' = [op |-> "SelectPreset", srcW |-> src[1], srcH |-> src[2],
                  nilCtx |-> useNil, in |-> NoPreset, out |-> d.Preset,
                  err |-> d.err, fallback |-> d.fallback]
      /\ current' = IF d.err THEN current ELSE d.Preset
      /\ UNCHANGED <<StandardPresets, ctx, transcodeVars, downstreamVars>>

\* the same call, by an engine that orders the catalog in place while it scans
AdjustResolutionCall_SortsCatalog ==
  LET r == AdjustResolution(StandardPresets, current, ctx)
      n == Len(StandardPresets)
  IN  /\ call' = [NoCall EXCEPT !.op = "AdjustResolution",
                                !.in = current, !.out = r]
      /\ current' = r
      /\ StandardPresets' = [i \in 1..n |-> StandardPresets[n + 1 - i]]
      /\ UNCHANGED <<ctx, transcodeVars, downstreamVars>>

\* adjusted := scaler.AdjustResolution(preset, ctx); the context is passed by
\* value and the catalog is only read
AdjustResolutionCall ==
  LET r == AdjustResolution(StandardPresets, current, ctx)
  IN  /\ call' = [NoCall EXCEPT !.op = "AdjustResolution",
                                !.in = current, !.out = r]
      /\ current' = r
      /\ UNCHANGED <<StandardPresets, ctx, transcodeVars, downstreamVars>>

NextScaler ==
  \/ \E b \in Bandwidths : SetBandwidth(b)
  \/ \E n \in 0..MaxFailures : SetRecentFailures(n)
  \/ \E o \in Overrides : SetManualOverride(o)
  \/ SetAdaptiveEnabled
  \/ SetPreferUpscale
  \/ \E src \in Sources, useNil \in BOOLEAN : SelectPresetCall(src, useNil)
  \/ AdjustResolutionCall

SpecScaler == InitScaler /\ [][NextScaler]_vars

(***************************************************************************)
(* Properties of the decision engine                                       *)
(***************************************************************************)
Catalog == {ShippedPresets[i] : i \in 1..Len(ShippedPresets)}

\* position of a catalog preset in the shipped table
Position(p) == CHOOSE i \in 1..Len(ShippedPresets) : ShippedPresets[i] = p

IsSelect == call.op = "SelectPreset"

IsAdjust == call.op = "AdjustResolution"

\* the catalog presets the override names once lower-cased and trimmed
Overridden == {p \in Catalog : ToLower(TrimSpace(ctx.ManualOverride)) = p.Label}

\* the catalog presets that pass both filters of the call that just returned
Survivors ==
  {p \in Catalog :
     /\ \/ (p.Width <= call.srcW /\ p.Height <= call.srcH)
        \/ (~ call.nilCtx /\ ctx.PreferUpscale)
     /\ \/ call.nilCtx
        \/ ctx.BandwidthKbps = 0
        \/ p.MinBitrate <= ctx.BandwidthKbps}

\* the presets within the bandwidth budget and strictly taller / smaller than
\* the preset the call was given
Taller ==
  {p \in Catalog :
     p.MinBitrate <= ctx.BandwidthKbps /\ p.Height > call.in.Height}

Smaller ==
  {p \in Catalog :
     p.MinBitrate <= ctx.BandwidthKbps /\ p.Height < call.in.Height}

\* an adaptive call that no manual override decides
Adaptive == IsAdjust /\ ctx.AdaptiveEnabled /\ Overridden = {}

\* C1: without PreferUpscale (a nil context included) SelectPreset never
\* returns a preset taller than the source, the default fallback included.
C1_NoUpscaleUnlessPreferred ==
  (IsSelect /\ ~ call.err /\ (call.nilCtx \/ ~ ctx.PreferUpscale))
    => call.out.Height <= call.srcH

\* C2 as claimed: with adaptive mode on, no override and no recent failure,
\* AdjustResolution returns the preset of lowest bitrate requirement among
\* those within budget and strictly taller, or the input when there is none.
C2_NearestStepUp ==
  (Adaptive /\ ctx.RecentFailures = 0) =>
    IF Taller = {} THEN call.out = call.in
    ELSE /\ call.out \in Taller
         /\ \A q \in Taller : call.out.MinBitrate <= q.MinBitrate

\* C2 as amended: in that case AdjustResolution returns the first preset in
\* catalog order, the tallest one within budget and strictly taller than the
\* input, or the input when there is none.
C2_TallestWithinBudget ==
  (Adaptive /\ ctx.RecentFailures = 0) =>
    IF Taller = {} THEN call.out = call.in
    ELSE /\ call.out \in Taller
         /\ \A q \in Taller :
              call.out.Height >= q.Height /\ Position(call.out) <= Position(q)

C2_Witness ==
  /\ Adaptive /\ ctx.RecentFailures = 0
  /\ Cardinality(Taller) >= 2
  /\ call.in.Label = <<"2","4","0","p">>
  /\ call.out.Label = <<"1","0","8","0","p">>

\* C3: with adaptive mode on, no override and RecentFailures >= 3,
\* AdjustResolution returns the first preset, scanning from the smallest
\* upward, that is within budget and strictly smaller than the input, or the
\* input when there is none.
C3_DowngradeFromSmallest ==
  (Adaptive /\ ctx.RecentFailures >= 3) =>
    IF Smaller = {} THEN call.out = call.in
    ELSE /\ call.out \in Smaller
         /\ \A q \in Smaller :
              call.out.Height <= q.Height /\ Position(call.out) >= Position(q)

C3_Witness ==
  /\ Adaptive /\ ctx.RecentFailures >= 3
  /\ Cardinality(Smaller) >= 2
  /\ call.in.Label = <<"1","0","8","0","p">>
  /\ call.out.Label = <<"2","4","0","p">>

\* C4 as claimed: with RecentFailures 1 or 2 AdjustResolution returns its
\* input preset for every context and bandwidth.
C4_HysteresisAlways ==
  (IsAdjust /\ ctx.RecentFailures \in {1, 2}) => call.out = call.in

\* C4 as amended: with RecentFailures 1 or 2 and a ManualOverride that names
\* no catalog label, AdjustResolution returns its input preset for every
\* bandwidth.
C4_HysteresisWithoutOverride ==
  (IsAdjust /\ ctx.RecentFailures \in {1, 2} /\ Overridden = {})
    => call.out = call.in

C4_Witness ==
  /\ Adaptive /\ ctx.RecentFailures \in {1, 2}
  /\ Taller # {} /\ Smaller # {}
  /\ call.out = call.in

\* C5: a ManualOverride that equals a catalog label once lower-cased and
\* trimmed makes AdjustResolution return that preset whatever the input,
\* failures, bandwidth and AdaptiveEnabled are; an override that names no
\* label leaves the result what it is with no override at all.
C5_ManualOverrideWins ==
  IsAdjust =>
    /\ \A p \in Overridden : call.out = p
    /\ Overridden = {} =>
         call.out = AdjustResolution(ShippedPresets, call.in,
                                     [ctx EXCEPT !.ManualOverride = <<>>])

C5_Witness ==
  /\ IsAdjust
  /\ ctx.ManualOverride = <<" ","7","2","0","P","\t">>
  /\ ~ ctx.AdaptiveEnabled
  /\ call.in.Label = <<"2","1","6","0","p">>
  /\ call.out = ShippedPresets[4]

\* C6: AdjustResolution is stateless: wherever a call stands in a sequence of
\* calls its result is one fixed function of (preset, context), and no call
\* changes the catalog or the caller's context.
C6_Stateless ==
  /\ [](IsAdjust => call.out = AdjustResolution(ShippedPresets, call.in, ctx))
  /\ [][/\ StandardPresets' = StandardPresets
        /\ call'.op # "none" => ctx' = ctx]_vars

C6_Witness ==
  /\ IsAdjust
  /\ call.in \in Catalog
  /\ call.out # call.in
  /\ ctx.RecentFailures >= 3

\* C7: when some catalog preset passes both filters, SelectPreset returns
\* the first of them in catalog order, which is the tallest of them.
C7_FirstSurvivor ==
  (IsSelect /\ Survivors # {}) =>
    /\ ~ call.err /\ ~ call.fallback
    /\ call.out \in Survivors
    /\ \A q \in Survivors :
         Position(call.out) <= Position(q) /\ call.out.Height >= q.Height

C7_Witness ==
  /\ IsSelect /\ Cardinality(Survivors) >= 2
  /\ ~ call.nilCtx /\ ctx.BandwidthKbps = 1000
  /\ call.srcH = 1080
  /\ call.out.Label = <<"4","8","0","p">>

\* C8: when no preset passes the filters SelectPreset returns the default
\* preset (1080p) and no error; it returns the error only when no catalog
\* entry is marked default, so never with the shipped catalog.
C8_FallbackToDefault ==
  IsSelect =>
    /\ ~ call.err
    /\ call.err => ~ \E p \in Catalog : p.IsDefault
    /\ Survivors = {} =>
         /\ call.fallback
         /\ call.out.IsDefault
         /\ call.out = ShippedPresets[3]
         /\ \A p \in Catalog : p.IsDefault => p = call.out

C8_Witness ==
  /\ IsSelect /\ Survivors = {} /\ call.fallback
  /\ call.out.Label = <<"1","0","8","0","p">>
  /\ ctx.BandwidthKbps = 250

(***************************************************************************)
(* transcoder.Transcode                                                    *)
(***************************************************************************)
\* longest ladder a profile lists
MaxLadder == 3

Variant(res, bitrate) == [Resolution |-> res, Bitrate |-> bitrate]

\* ladder entries: 1080p (the size of one source, taller than the other),
\* 720p, 720p again padded and upper-cased, and a label the catalog does
\* not know
VariantInputs ==
  { Variant(<<"1","0","8","0","p">>, <<"5","0","0","0","k">>),
    Variant(<<"7","2","0","p">>, <<"3","0","0","0","k">>),
    Variant(<<" ","7","2","0","P">>, <<"3","0","0","0","k">>),
    Variant(<<"4","K">>, <<"3","0","0","0","k">>) }

Ladders == UNION {[1..n -> VariantInputs] : n \in 0..MaxLadder}

\* the earlier revision takes labels (profile.Resolutions) and looks the
\* bitrate up in a map (profile.Bitrate[res]): one bitrate per label
OneBitratePerLabel(ladder) ==
  \A i, j \in DOMAIN ladder :
    ladder[i].Resolution = ladder[j].Resolution
      => ladder[i].Bitrate = ladder[j].Bitrate

\* sources: one of 1080p's size and one of 720p's
MediaInputs ==
  { [Width |-> 1920, Height |-> 1080], [Width |-> 1280, Height |-> 720] }

\* scaler.DimensionsForLabel
DimensionsForLabel(cat, label) ==
  LET norm == NormalizeLabel(label)
      M == {i \in 1..Len(cat) : NormalizeLabel(cat[i].Label) = norm}
  IN  IF M # {}
      THEN [Width |-> cat[FirstForward(M)].Width,
            Height |-> cat[FirstForward(M)].Height, err |-> FALSE]
      ELSE [Width |-> 0, Height |-> 0, err |-> TRUE]

\* a filter that also drops the entry of the source's own height
KeepsVariant_Strict(cat, v, m) ==
  LET d == DimensionsForLabel(cat, v.Resolution)
  IN  ~ d.err /\ d.Height < m.Height

\* the filter's test on one ladder entry
KeepsVariant(cat, v, m) ==
  LET d == DimensionsForLabel(cat, v.Resolution)
  IN  ~ d.err /\ d.Height <= m.Height

\* `allowed`: the entries the filter loop appends, in ladder order
RECURSIVE FilterVariants(_, _, _)
FilterVariants(cat, ladder, m) ==
  IF ladder = <<>> THEN <<>>
  ELSE (IF KeepsVariant(cat, Head(ladder), m) THEN <<Head(ladder)>> ELSE <<>>)
         \o FilterVariants(cat, Tail(ladder), m)

\* key := fmt.Sprintf("%s_%s", v.Resolution, v.Bitrate)
Key(v) == v.Resolution \o <<"_">> \o v.Bitrate

\* fmt.Sprintf("%s_%s_%s<suffix>", slug, res, bitrate)
OutputFilename(v, suffix) ==
  slug \o <<"_">> \o v.Resolution \o <<"_">> \o v.Bitrate \o suffix

SuffixEncoded(rev) ==
  IF rev = "progress"
  THEN <<"b","p","s",".","m","p","4">>
  ELSE <<"k","b","p","s",".","m","p","4">>

SuffixPassthrough ==
  <<"k","b","p","s","_","p","a","s","s","t","h","r","o","u","g","h",
    ".","m","p","4">>

ResolutionVariant(w, h, bitrate, flag, name) ==
  [Width |-> w, Height |-> h, Bitrate |-> bitrate, ScaleFlag |-> flag,
   OutputFilename |-> name]

TranscoderError(stage, operation, name) ==
  [Stage |-> stage, Operation |-> operation, OutputPath |-> name]

InitTranscode ==
  /\ StandardPresets = ShippedPresets
  /\ ctx = ZeroCtx
  /\ current = NoPreset
  /\ call = NoCall
  /\ revision \in {"passthrough", "progress"}
  /\ profile \in Ladders
  /\ slug = Slug
  /\ revision = "passthrough" => OneBitratePerLabel(profile)
  /\ media \in MediaInputs
  /\ tpc = "start"
  /\ allowed = <<>>
  /\ workers = <<>>
  /\ wpc = <<>>
  /\ seen = {}
  /\ seenMu = 0
  /\ result = NoResult
  /\ scan = 0
  /\ filtered = <<>>
  /\ cmdErr = <<>>
  /\ ProgressIdle
  /\ SegmentIdle
  /\ ManifestIdle

\* validatePaths and os.MkdirAll: either fails the call before any result
\* exists; otherwise the result container is built
Setup(ok) ==
  /\ tpc = "start"
  /\ IF ok
     THEN /\ tpc' = "filter"
          /\ result' = [Success |-> TRUE, Variants |-> <<>>, Errors |-> <<>>,
                        nil |-> FALSE]
     ELSE /\ tpc' = "failed"
          /\ UNCHANGED result
  /\ UNCHANGED <<scalerVars, downstreamVars, progressVars,
                 profile, slug, media, revision, cmdErr, allowed, workers, wpc,
                 seen, seenMu, scan, filtered>>

\* the loop that fills `allowed`
Filter ==
  /\ tpc = "filter"
  /\ allowed' = FilterVariants(StandardPresets, profile, media)
  /\ tpc' = IF revision = "passthrough" THEN "passthrough" ELSE "dispatch"
  /\ UNCHANGED <<scalerVars, downstreamVars, progressVars,
                 profile, slug, media, revision, cmdErr, workers, wpc, seen,
                 seenMu, result, scan, filtered>>

\* one iteration of the loop that detects passthrough variants, before any
\* goroutine is launched: an entry of the source's own size is copied (the
\* copy succeeds or fails), any other entry goes on to `filtered`
Passthrough(copied) ==
  /\ tpc = "passthrough"
  /\ scan < Len(allowed)
  /\ LET v == allowed[scan + 1]
         d == DimensionsForLabel(StandardPresets, v.Resolution)
         name == OutputFilename(v, SuffixPassthrough)
     IN  IF d.err
         THEN copied /\ UNCHANGED <<result, filtered>>
         ELSE IF d.Width = media.Width /\ d.Height = media.Height
         THEN /\ UNCHANGED filtered
              /\ result' =
                   IF copied
                   THEN [result EXCEPT !.Variants =
                           Append(@, ResolutionVariant(d.Width, d.Height,
                                       v.Bitrate, "passthrough", name))]
                   ELSE [result EXCEPT !.Success = FALSE,
                           !.Errors = Append(@, TranscoderError("filesystem",
                                                  "copy_passthrough", name))]
         ELSE /\ copied
              /\ filtered' = Append(filtered, v)
              /\ UNCHANGED result
  /\ scan' = scan + 1
  /\ UNCHANGED <<scalerVars, downstreamVars, progressVars,
                 profile, slug, media, revision, cmdErr, tpc, allowed, workers,
                 wpc, seen, seenMu>>

PassthroughDone ==
  /\ tpc = "passthrough"
  /\ scan = Len(allowed)
  /\ tpc' = "dispatch"
  /\ UNCHANGED <<scalerVars, downstreamVars, progressVars,
                 profile, slug, media, revision, cmdErr, allowed, workers, wpc,
                 seen, seenMu, result, scan, filtered>>

\* the entries handed to goroutines
ToEncode == IF revision = "passthrough" THEN filtered ELSE allowed

\* `go func() { ticker ... }()` where the revision has one, then the loop of
\* `wg.Add(1); go func(v Variant) {...}(v)`
Dispatch ==
  /\ tpc = "dispatch"
  /\ workers' = ToEncode
  /\ wpc' = [w \in DOMAIN ToEncode |-> "start"]
  /\ cmdErr' = [w \in DOMAIN ToEncode |-> "none"]
  /\ tpc' = "wait"
  /\ IF revision = "progress"
     THEN /\ ticker' = "select"
          /\ reader' = [w \in DOMAIN ToEncode |-> "idle"]
     ELSE UNCHANGED <<ticker, reader>>
  /\ UNCHANGED <<scalerVars, downstreamVars, progressMap, progressMu, done,
                 profile, slug, media, revision, allowed, seen, seenMu,
                 result, scan, filtered>>

\* seenMu.Lock() of the duplicate guard
LockSeen(w) ==
  /\ wpc[w] = "start"
  /\ seenMu = 0
  /\ seenMu' = w
  /\ wpc' = [wpc EXCEPT ![w] = "guard"]
  /\ UNCHANGED <<scalerVars, downstreamVars, progressVars,
                 profile, slug, media, revision, cmdErr, tpc, allowed, workers,
                 seen, result, scan, filtered>>

\* a guard that unlocks only when it skips, and otherwise keeps seenMu
\* through the encode
CheckSeen_KeepsLock(w) ==
  /\ wpc[w] = "guard"
  /\ seenMu = w
  /\ IF Key(workers[w]) \in seen
     THEN /\ wpc' = [wpc EXCEPT ![w] = "skipped"]
          /\ seenMu' = 0
          /\ UNCHANGED seen
     ELSE /\ wpc' = [wpc EXCEPT ![w] = "encode"]
          /\ seen' = seen \cup {Key(workers[w])}
          /\ UNCHANGED seenMu
  /\ UNCHANGED <<scalerVars, downstreamVars, progressVars, profile, slug, media,
                 revision, cmdErr, tpc, allowed, workers, result, scan,
                 filtered>>

\* if seen[key] { unlock; return }; seen[key] = true; unlock
CheckSeen(w) ==
  /\ wpc[w] = "guard"
  /\ seenMu = w
  /\ IF Key(workers[w]) \in seen
     THEN /\ wpc' = [wpc EXCEPT ![w] = "skipped"]
          /\ UNCHANGED seen
     ELSE /\ wpc' = [wpc EXCEPT ![w] = "encode"]
          /\ seen' = seen \cup {Key(workers[w])}
  /\ seenMu' = 0
  /\ UNCHANGED <<scalerVars, downstreamVars, progressVars,
                 profile, slug, media, revision, cmdErr, tpc, allowed, workers,
                 result, scan, filtered>>

\* a goroutine whose command error fails the whole call
RunCommand_Propagates(w, ok) ==
  /\ wpc[w] = "encode"
  /\ wpc' = [wpc EXCEPT ![w] = IF ok THEN "succeeded" ELSE "errored"]
  /\ cmdErr' = [cmdErr EXCEPT ![w] = IF ok THEN "nil" ELSE "error"]
  /\ tpc' = IF ok THEN tpc ELSE "failed"
  /\ UNCHANGED <<scalerVars, downstreamVars, progressVars,
                 profile, slug, media, revision,
                 allowed, workers, seen, seenMu, result, scan, filtered>>

\* executil.RunCommand / RunCommandWithProgress returns, with or without error
RunCommand(w, ok) ==
  /\ wpc[w] = "encode"
  /\ wpc' = [wpc EXCEPT ![w] = IF ok THEN "succeeded" ELSE "errored"]
  /\ cmdErr' = [cmdErr EXCEPT ![w] = IF ok THEN "nil" ELSE "error"]
  /\ UNCHANGED <<scalerVars, downstreamVars, progressVars,
                 profile, slug, media, revision, tpc, allowed, workers,
                 seen, seenMu, result, scan, filtered>>

\* seenMu.Lock() before the result is written
LockResult(w) ==
  /\ wpc[w] \in {"succeeded", "errored"}
  /\ seenMu = 0
  /\ seenMu' = w
  /\ wpc' = [wpc EXCEPT ![w] =
               IF wpc[w] = "succeeded" THEN "record" ELSE "recordError"]
  /\ UNCHANGED <<scalerVars, downstreamVars, progressVars,
                 profile, slug, media, revision, cmdErr, tpc, allowed, workers,
                 seen, result, scan, filtered>>

\* a write of the result that drops what other goroutines appended
Record_LostAppend(w) ==
  /\ wpc[w] \in {"record", "recordError"}
  /\ seenMu = w
  /\ LET v == workers[w]
         d == DimensionsForLabel(StandardPresets, v.Resolution)
         width == IF d.err THEN media.Width ELSE d.Width
         height == IF d.err THEN media.Height ELSE d.Height
         name == OutputFilename(v, SuffixEncoded(revision))
     IN  result' =
           IF wpc[w] = "record"
           THEN [result EXCEPT !.Variants =
                   <<ResolutionVariant(width, height, v.Bitrate, "auto",
                                       name)>>]
           ELSE [result EXCEPT !.Success = FALSE,
                   !.Errors = <<TranscoderError("execution", "transcode",
                                                name)>>]
  /\ seenMu' = 0
  /\ wpc' = [wpc EXCEPT ![w] = "done"]
  /\ UNCHANGED <<scalerVars, downstreamVars, progressVars,
                 profile, slug, media, revision,
                 cmdErr, tpc, allowed, workers, seen, scan, filtered>>

\* result.Variants = append(...) or result.Errors = append(...), then unlock
Record(w) ==
  /\ wpc[w] \in {"record", "recordError"}
  /\ seenMu = w
  /\ LET v == workers[w]
         d == DimensionsForLabel(StandardPresets, v.Resolution)
         width == IF d.err THEN media.Width ELSE d.Width
         height == IF d.err THEN media.Height ELSE d.Height
         name == OutputFilename(v, SuffixEncoded(revision))
     IN  result' =
           IF wpc[w] = "record"
           THEN [result EXCEPT !.Variants =
                   Append(@, ResolutionVariant(width, height, v.Bitrate,
                                               "auto", name))]
           ELSE [result EXCEPT !.Success = FALSE,
                   !.Errors = Append(@, TranscoderError("execution",
                                                        "transcode", name))]
  /\ seenMu' = 0
  /\ wpc' = [wpc EXCEPT ![w] = "done"]
  /\ UNCHANGED <<scalerVars, downstreamVars, progressVars,
                 profile, slug, media, revision, cmdErr, tpc, allowed, workers,
                 seen, scan, filtered>>

\* a return that does not wait for the goroutines
Return_NoWait ==
  /\ tpc = "wait"
  /\ tpc' = "returned"
  /\ done' = IF revision = "progress" THEN done + 1 ELSE done
  /\ UNCHANGED <<scalerVars, downstreamVars, progressMap, progressMu, ticker,
                 reader, profile, slug, media, revision, cmdErr, allowed, workers,
                 wpc, seen, seenMu, result, scan, filtered>>

\* wg.Wait() returns once every goroutine has; close(done) where there is a
\* logging goroutine; Transcode returns result, nil
Return ==
  /\ tpc = "wait"
  /\ \A w \in DOMAIN wpc : wpc[w] \in {"done", "skipped"}
  /\ tpc' = "returned"
  /\ done' = IF revision = "progress" THEN done + 1 ELSE done
  /\ UNCHANGED <<scalerVars, downstreamVars, progressMap, progressMu, ticker,
                 reader, profile, slug, media, revision, cmdErr, allowed, workers, wpc,
                 seen, seenMu, result, scan, filtered>>

NextTranscode ==
  \/ \E ok \in BOOLEAN : Setup(ok)
  \/ Filter
  \/ \E copied \in BOOLEAN : Passthrough(copied)
  \/ PassthroughDone
  \/ Dispatch
  \/ \E w \in DOMAIN workers : LockSeen(w)
  \/ \E w \in DOMAIN workers : CheckSeen(w)
  \/ \E w \in DOMAIN workers, ok \in BOOLEAN : RunCommand(w, ok)
  \/ \E w \in DOMAIN workers : LockResult(w)
  \/ \E w \in DOMAIN workers : Record(w)
  \/ Return

SpecTranscode == InitTranscode /\ [][NextTranscode]_vars

(***************************************************************************)
(* Properties of Transcode                                                 *)
(***************************************************************************)
\* the label names a catalog preset no taller than the source
Eligible(v) ==
  \E p \in Catalog :
    ToLower(TrimSpace(v.Resolution)) = p.Label /\ p.Height <= media.Height

Filtered == tpc \in {"passthrough", "dispatch", "wait", "returned"}

\* C9: the filter keeps a requested variant if and only if its label
\* resolves in the catalog to a height no greater than the source's; entries
\* with unknown or taller labels are dropped and no goroutine is launched
\* for a dropped entry.
C9_FilterKeepsExactlyEligible ==
  /\ Filtered => allowed = SelectSeq(profile, Eligible)
  /\ \A w \in DOMAIN workers :
       /\ Eligible(workers[w])
       /\ \E i \in DOMAIN allowed : allowed[i] = workers[w]

C9_Witness ==
  /\ tpc = "returned"
  /\ revision = "progress"
  /\ media.Height = 720
  /\ Len(profile) = 3
  /\ Len(allowed) = 1
  /\ Len(workers) = 1
  /\ workers[1].Resolution = <<" ","7","2","0","P">>
  /\ \E i \in DOMAIN profile : profile[i].Resolution = <<"4","K">>
  /\ \E i \in DOMAIN profile :
       profile[i].Resolution = <<"1","0","8","0","p">>

\* goroutines that got past the duplicate guard
PastGuard ==
  {w \in DOMAIN wpc : wpc[w] \notin {"start", "guard", "skipped"}}

\* C10: at most one goroutine per (label, bitrate) key gets past the
\* duplicate guard, and the result never holds two variants of one key (the
\* output file name spells the key), the passthrough copies included.
C10_NoDuplicateVariants ==
  /\ \A w1, w2 \in PastGuard :
       Key(workers[w1]) = Key(workers[w2]) => w1 = w2
  /\ \A i, j \in DOMAIN result.Variants :
       result.Variants[i].OutputFilename = result.Variants[j].OutputFilename
         => i = j

\* goroutines whose encoder returned an error, and those it returned nil to
Failed == {w \in DOMAIN cmdErr : cmdErr[w] = "error"}

Encoded == {w \in DOMAIN cmdErr : cmdErr[w] = "nil"}

DistinctKeys(ladder) ==
  \A i, j \in DOMAIN ladder :
    (ladder[i].Resolution = ladder[j].Resolution
       /\ ladder[i].Bitrate = ladder[j].Bitrate) => i = j

IsEncodedVariant(v) == v.ScaleFlag = "auto"

IsExecutionError(e) == e.Stage = "execution"

\* the file name the encoder of goroutine w writes
EncodedName(w) ==
  slug \o <<"_">> \o workers[w].Resolution \o <<"_">> \o workers[w].Bitrate
    \o SuffixEncoded(revision)

\* C11: when Transcode returns after handling n allowed variants of distinct
\* keys of which k encoder invocations failed, the result holds exactly one
\* produced variant for each encoder that succeeded and exactly one error for
\* each that failed (n entries in all, none lost, none twice), and Success is
\* false exactly when the result holds an error.
C11_EveryOutcomeOnce ==
  (tpc = "returned" /\ DistinctKeys(allowed)) =>
    /\ Len(result.Variants) + Len(result.Errors) = Len(allowed)
    /\ Len(SelectSeq(result.Variants, IsEncodedVariant)) = Cardinality(Encoded)
    /\ Len(SelectSeq(result.Errors, IsExecutionError)) = Cardinality(Failed)
    /\ \A w \in Encoded :
         Cardinality({i \in DOMAIN result.Variants :
           result.Variants[i].OutputFilename = EncodedName(w)}) = 1
    /\ \A w \in Failed :
         Cardinality({i \in DOMAIN result.Errors :
           result.Errors[i].OutputPath = EncodedName(w)}) = 1
    /\ revision = "progress" =>
         /\ Cardinality(Encoded) + Cardinality(Failed) = Len(allowed)
         /\ Len(result.Variants) = Len(allowed) - Cardinality(Failed)
         /\ Len(result.Errors) = Cardinality(Failed)
    /\ result.Success <=> result.Errors = <<>>
    /\ revision = "progress" => (~ result.Success <=> Failed # {})

C11_Witness ==
  /\ tpc = "returned"
  /\ revision = "progress"
  /\ Len(allowed) = 3
  /\ DistinctKeys(allowed)
  /\ Cardinality(Failed) = 1
  /\ Len(result.Variants) = 2
  /\ Len(result.Errors) = 1
  /\ ~ result.Success

\* the entry's label names a catalog preset of exactly the source's size
SourceSized(v) ==
  \E q \in Catalog :
    /\ ToLower(TrimSpace(v.Resolution)) = q.Label
    /\ q.Width = media.Width
    /\ q.Height = media.Height

PassthroughName(v) ==
  slug \o <<"_">> \o v.Resolution \o <<"_">> \o v.Bitrate \o SuffixPassthrough

\* C13: every allowed variant whose resolved dimensions equal the source's
\* is copied, never handed to an encoder goroutine, and by the time Transcode
\* returns it is in the result either as a variant flagged "passthrough" or,
\* when the copy failed, as a "filesystem" error with Success false.
C13_SourceSizedIsCopied ==
  tpc = "returned" =>
    \A i \in DOMAIN allowed :
      SourceSized(allowed[i]) =>
        /\ \A w \in DOMAIN workers : workers[w] # allowed[i]
        /\ \/ \E k \in DOMAIN result.Variants :
                /\ result.Variants[k].OutputFilename
                     = PassthroughName(allowed[i])
                /\ result.Variants[k].ScaleFlag = "passthrough"
           \/ /\ ~ result.Success
              /\ \E k \in DOMAIN result.Errors :
                   /\ result.Errors[k].Stage = "filesystem"
                   /\ result.Errors[k].OutputPath = PassthroughName(allowed[i])

\* C14: when the filter leaves no allowed variant, Transcode fails before
\* any goroutine is launched: it never reaches the dispatch loop and never
\* returns a result.
C14_NoAllowedVariantsIsAnError ==
  (Filtered /\ allowed = <<>>) =>
    /\ tpc \notin {"wait", "returned"}
    /\ wpc = <<>>

(***************************************************************************)
(* segmenter.SegmentMedia                                                  *)
(***************************************************************************)
\* most variants a TranscodeResult handed to SegmentMedia holds
MaxSegments == 2

\* a Go string as the sequence of its characters
Chars(str) == [i \in 1..Len(str) |-> SubSeq(str, i, i)]

HasPrefix(str, prefix) ==
  /\ Len(prefix) <= Len(str)
  /\ SubSeq(str, 1, Len(prefix)) = prefix

HasSuffix(str, suffix) ==
  /\ Len(suffix) <= Len(str)
  /\ SubSeq(str, Len(str) - Len(suffix) + 1, Len(str)) = suffix

\* strings.Split(str, sep) for a one-character separator (the string is
\* bound to s so that it is evaluated once at each level of the recursion)
RECURSIVE Split(_, _)
Split(str, sep) ==
  CHOOSE parts \in
    { LET cut == {i \in 1..Len(s) : s[i] = sep}
      IN  IF cut = {} THEN <<s>>
          ELSE <<SubSeq(s, 1, Min(cut) - 1)>>
                 \o Split(SubSeq(s, Min(cut) + 1, Len(s)), sep) :
      s \in {str} } : TRUE

\* filepath.Join of two clean elements
Join(dir, name) == dir \o <<"/">> \o name

\* result.OutputDir
OutputDir == Chars("out")

\* segmenter.LabelFromFilename
LabelFromFilename(filename) ==
  LET parts == Split(filename, "_")
      hits == {i \in 1..Len(parts) : HasSuffix(parts[i], <<"p">>)}
  IN  IF hits # {} THEN parts[Min(hits)] ELSE Chars("unknown")

\* segmenter.manifestExtension
manifestExtension(fmt) ==
  IF ToLower(fmt) = Chars("hls") THEN Chars("m3u8")
  ELSE IF ToLower(fmt) = Chars("dash") THEN Chars("mpd")
  ELSE Chars("txt")

\* analyzer.MediaInfo as the segmenter reads it; KeyframeInterval is in
\* hundredths of a second
MediaInfo(interval) == [nil |-> FALSE, KeyframeInterval |-> interval]

NilMediaInfo == [nil |-> TRUE, KeyframeInterval |-> 0]

\* what AnalyzeMedia can give: nothing (it failed), no keyframes measured,
\* 0.30 s, 3.20 s and 3.50 s
KeyframeInputs ==
  {NilMediaInfo, MediaInfo(0), MediaInfo(30), MediaInfo(320), MediaInfo(350)}

\* int(f + 0.5) for a float64 f >= 0 given in hundredths
RoundHalfUp(hundredths) == (hundredths + 50) \div 100

\* the goroutine's `segmentLength`
segmentLength(configured, info) ==
  IF configured = 0 /\ ~ info.nil /\ info.KeyframeInterval > 0
  THEN RoundHalfUp(info.KeyframeInterval)
  ELSE configured

NoCommand ==
  [tool |-> "none", f |-> <<>>, input |-> <<>>, segLen |-> 0,
   forceKeyframes |-> 0, output |-> <<>>]

\* segmenter.buildSegmentCommand: -hls_time / -seg_duration carry segLen,
\* -force_key_frames the interval (0 when the flag is left out)
buildSegmentCommand(inputPath, outputDir, manifestName, fmt, segLen, info) ==
  LET force == IF ~ info.nil /\ info.KeyframeInterval > 0
               THEN info.KeyframeInterval ELSE 0
  IN  IF ToLower(fmt) = Chars("hls")
      THEN [tool |-> "ffmpeg", f |-> Chars("hls"), input |-> inputPath,
            segLen |-> segLen, forceKeyframes |-> force,
            output |-> manifestName]
      ELSE IF ToLower(fmt) = Chars("dash")
      THEN [tool |-> "ffmpeg", f |-> Chars("dash"), input |-> inputPath,
            segLen |-> segLen, forceKeyframes |-> force,
            output |-> Join(outputDir, manifestName)]
      ELSE [NoCommand EXCEPT !.tool = "echo"]

SegmenterError(op, msg) == [Op |-> op, Msg |-> msg]

\* variants Transcode produces for the inputs above: an encode of the ladder
\* entry "720p" and one of the entry " 720P"
ProducedInputs ==
  { ResolutionVariant(1280, 720, Chars("3000k"), "auto",
      OutputFilename(Variant(Chars("720p"), Chars("3000k")),
                     SuffixEncoded("progress"))),
    ResolutionVariant(1280, 720, Chars("3000k"), "auto",
      OutputFilename(Variant(Chars(" 720P"), Chars("3000k")),
                     SuffixEncoded("progress"))) }

\* profile.SegmentLength: unset, or six seconds
SegmentLengths == {0, 6}

\* the *TranscodeResult a caller passes: nil, or one with up to MaxSegments
\* variants
TranscodedInputs ==
  {NoTranscoded} \cup
  { [nil |-> FALSE, Variants |-> vs, SegmentLength |-> len] :
      vs \in UNION {[1..n -> ProducedInputs] : n \in 0..MaxSegments},
      len \in SegmentLengths }

Formats == {Chars("hls"), Chars("dash")}

\* a check that rejects a nil result only
SegmentMediaStart_NilOnly ==
  /\ spc = "start"
  /\ IF transcoded.nil
     THEN /\ spc' = "rejected"
          /\ segErr' = "validate"
          /\ UNCHANGED <<segResult, swpc, mediaInfo, cmd>>
     ELSE /\ spc' = "wait"
          /\ segResult' = [nil |-> FALSE, Format |-> format, Success |-> TRUE,
                           Manifests |-> <<>>, Errors |-> <<>>]
          /\ swpc' = [w \in DOMAIN transcoded.Variants |-> "mkdir"]
          /\ mediaInfo' = [w \in DOMAIN transcoded.Variants |-> NilMediaInfo]
          /\ cmd' = [w \in DOMAIN transcoded.Variants |-> NoCommand]
          /\ UNCHANGED segErr
  /\ UNCHANGED <<scalerVars, transcodeVars, manifestVars, transcoded, format,
                 mu, dirs>>

\* the nil-and-empty check, then the loop of `wg.Add(1); go func(...)`
SegmentMediaStart ==
  /\ spc = "start"
  /\ IF transcoded.nil \/ Len(transcoded.Variants) = 0
     THEN /\ spc' = "rejected"
          /\ segErr' = "validate"
          /\ UNCHANGED <<segResult, swpc, mediaInfo, cmd>>
     ELSE /\ spc' = "wait"
          /\ segResult' = [nil |-> FALSE, Format |-> format, Success |-> TRUE,
                           Manifests |-> <<>>, Errors |-> <<>>]
          /\ swpc' = [w \in DOMAIN transcoded.Variants |-> "mkdir"]
          /\ mediaInfo' = [w \in DOMAIN transcoded.Variants |-> NilMediaInfo]
          /\ cmd' = [w \in DOMAIN transcoded.Variants |-> NoCommand]
          /\ UNCHANGED segErr
  /\ UNCHANGED <<scalerVars, transcodeVars, manifestVars, transcoded, format,
                 mu, dirs>>

\* the label goroutine w derives from its variant's file name
SegLabel(w) == LabelFromFilename(transcoded.Variants[w].OutputFilename)

\* os.MkdirAll(outputDir, os.ModePerm)
MkdirAll(w, ok) ==
  /\ spc = "wait"
  /\ swpc[w] = "mkdir"
  /\ IF ok
     THEN /\ dirs' = dirs \cup {Join(OutputDir, SegLabel(w))}
          /\ swpc' = [swpc EXCEPT ![w] = "analyze"]
     ELSE /\ swpc' = [swpc EXCEPT ![w] = "mkdirFailed"]
          /\ UNCHANGED dirs
  /\ UNCHANGED <<scalerVars, transcodeVars, manifestVars, transcoded, format,
                 spc, mu, segResult, segErr, mediaInfo, cmd>>

\* analyzer.AnalyzeMedia(inputPath), the segment length and the command
AnalyzeMedia(w, info) ==
  /\ spc = "wait"
  /\ swpc[w] = "analyze"
  /\ mediaInfo' = [mediaInfo EXCEPT ![w] = info]
  /\ LET variant == transcoded.Variants[w]
         inputPath == Join(OutputDir, variant.OutputFilename)
         outputDir == Join(OutputDir, SegLabel(w))
         manifestName == SegLabel(w) \o <<".">> \o manifestExtension(format)
     IN  cmd' = [cmd EXCEPT ![w] =
                   buildSegmentCommand(inputPath, outputDir, manifestName,
                     format, segmentLength(transcoded.SegmentLength, info),
                     info)]
  /\ swpc' = [swpc EXCEPT ![w] = "run"]
  /\ UNCHANGED <<scalerVars, transcodeVars, manifestVars, transcoded, format,
                 spc, mu, segResult, segErr, dirs>>

\* executil.RunCommand(cmd) returns, with or without error; the goroutine
\* does not read mediaInfo and cmd again
RunSegmentCommand(w, ok) ==
  /\ spc = "wait"
  /\ swpc[w] = "run"
  /\ swpc' = [swpc EXCEPT ![w] = IF ok THEN "segmented" ELSE "runFailed"]
  /\ mediaInfo' = [mediaInfo EXCEPT ![w] = NilMediaInfo]
  /\ cmd' = [cmd EXCEPT ![w] = NoCommand]
  /\ UNCHANGED <<scalerVars, transcodeVars, manifestVars, transcoded, format,
                 spc, mu, segResult, segErr, dirs>>

\* mu.Lock()
LockSegResult(w) ==
  /\ spc = "wait"
  /\ swpc[w] \in {"mkdirFailed", "runFailed", "segmented"}
  /\ mu = 0
  /\ mu' = w
  /\ swpc' = [swpc EXCEPT ![w] =
                IF swpc[w] = "mkdirFailed" THEN "recordMkdirError"
                ELSE IF swpc[w] = "runFailed" THEN "recordRunError"
                ELSE "recordManifest"]
  /\ UNCHANGED <<scalerVars, transcodeVars, manifestVars, transcoded, format,
                 spc, segResult, segErr, mediaInfo, cmd, dirs>>

\* a record of the outcome that leaves Success as it was
RecordSegment_KeepsSuccess(w) ==
  /\ spc = "wait"
  /\ swpc[w] \in {"recordMkdirError", "recordRunError", "recordManifest"}
  /\ mu = w
  /\ LET label == SegLabel(w)
         manifestName == label \o <<".">> \o manifestExtension(format)
         manifestPath == Join(Join(OutputDir, label), manifestName)
     IN  segResult' =
           IF swpc[w] = "recordManifest"
           THEN [segResult EXCEPT !.Manifests = Append(@, manifestPath)]
           ELSE IF swpc[w] = "recordRunError"
           THEN [segResult EXCEPT
                   !.Errors = Append(@, SegmenterError("segment",
                     Chars("failed to segment ")
                       \o transcoded.Variants[w].OutputFilename))]
           ELSE [segResult EXCEPT
                   !.Errors = Append(@, SegmenterError("filesystem",
                     Chars("failed to create segment dir for ") \o label))]
  /\ mu' = 0
  /\ swpc' = [swpc EXCEPT ![w] = "done"]
  /\ UNCHANGED <<scalerVars, transcodeVars, manifestVars, transcoded, format,
                 spc, segErr, mediaInfo, cmd, dirs>>

\* segResult.Manifests = append(...) or Success = false and
\* segResult.Errors = append(...), then mu.Unlock() and return
RecordSegment(w) ==
  /\ spc = "wait"
  /\ swpc[w] \in {"recordMkdirError", "recordRunError", "recordManifest"}
  /\ mu = w
  /\ LET label == SegLabel(w)
         manifestName == label \o <<".">> \o manifestExtension(format)
         manifestPath == Join(Join(OutputDir, label), manifestName)
     IN  segResult' =
           IF swpc[w] = "recordManifest"
           THEN [segResult EXCEPT !.Manifests = Append(@, manifestPath)]
           ELSE IF swpc[w] = "recordRunError"
           THEN [segResult EXCEPT !.Success = FALSE,
                   !.Errors = Append(@, SegmenterError("segment",
                     Chars("failed to segment ")
                       \o transcoded.Variants[w].OutputFilename))]
           ELSE [segResult EXCEPT !.Success = FALSE,
                   !.Errors = Append(@, SegmenterError("filesystem",
                     Chars("failed to create segment dir for ") \o label))]
  /\ mu' = 0
  /\ swpc' = [swpc EXCEPT ![w] = "done"]
  /\ UNCHANGED <<scalerVars, transcodeVars, manifestVars, transcoded, format,
                 spc, segErr, mediaInfo, cmd, dirs>>

\* wg.Wait() returns once every goroutine has; return segResult, nil
SegmentMediaReturn ==
  /\ spc = "wait"
  /\ \A w \in DOMAIN swpc : swpc[w] = "done"
  /\ spc' = "returned"
  /\ UNCHANGED <<scalerVars, transcodeVars, manifestVars, transcoded, format,
                 swpc, mu, segResult, segErr, mediaInfo, cmd, dirs>>

(***************************************************************************)
(* manifester.GenerateMasterManifest                                       *)
(***************************************************************************)
\* most sub-manifests a SegmentResult handed to the manifester holds
MaxManifests == 2

Digits == Chars("0123456789")

\* fmt's %d for n >= 0
RECURSIVE FormatInt(_)
FormatInt(n) ==
  IF n < 10 THEN <<Digits[n + 1]>>
  ELSE FormatInt(n \div 10) \o <<Digits[(n % 10) + 1]>>

IsDigit(c) == \E d \in 1..10 : Digits[d] = c

DigitValue(c) == (CHOOSE d \in 1..10 : Digits[d] = c) - 1

\* the number a run of digits spells
RECURSIVE ParseInt(_)
ParseInt(digits) ==
  IF digits = <<>> THEN 0
  ELSE 10 * ParseInt(SubSeq(digits, 1, Len(digits) - 1))
         + DigitValue(digits[Len(digits)])

\* length of the longest prefix of str whose characters all satisfy Test
RunLength(str, Test(_)) ==
  LET stop == {i \in 1..Len(str) : ~ Test(str[i])}
  IN  IF stop = {} THEN Len(str) ELSE Min(stop) - 1

NotSpace(c) == c \notin Space

\* fmt.Sscanf(inf, "#EXT-X-STREAM-INF:BANDWIDTH=%d,RESOLUTION=%s", ...)
Sscanf(inf) ==
  LET head == Chars("#EXT-X-STREAM-INF:BANDWIDTH=")
      mid == Chars(",RESOLUTION=")
      failed == [err |-> TRUE, Bitrate |-> 0, Resolution |-> <<>>]
  IN  IF ~ HasPrefix(inf, head) THEN failed
      ELSE LET r1 == SubSeq(inf, Len(head) + 1, Len(inf))
               n == RunLength(r1, IsDigit)
               r2 == SubSeq(r1, n + 1, Len(r1))
               r3 == SubSeq(r2, Len(mid) + 1, Len(r2))
               m == RunLength(r3, NotSpace)
           IN  IF n = 0 \/ ~ HasPrefix(r2, mid) \/ m = 0 THEN failed
               ELSE [err |-> FALSE, Bitrate |-> ParseInt(SubSeq(r1, 1, n)),
                     Resolution |-> SubSeq(r3, 1, m)]

\* filepath.Base
Base(path) ==
  IF path = <<>> THEN <<".">>
  ELSE LET parts == Split(path, "/") IN parts[Len(parts)]

\* filepath.Ext
Ext(path) ==
  LET dots == {i \in 1..Len(path) : path[i] = "."}
  IN  IF dots = {} THEN <<>> ELSE SubSeq(path, Max(dots), Len(path))

\* extractLabel: the base name up to its first dot in the first revision,
\* the base name without its extension in the last
extractLabel(rev, path) ==
  IF rev = "exact"
  THEN Split(Base(path), ".")[1]
  ELSE SubSeq(Base(path), 1, Len(Base(path)) - Len(Ext(Base(path))))

\* strconv.Atoi succeeds on a non-empty run of digits
IsNumber(str) == str # <<>> /\ RunLength(str, IsDigit) = Len(str)

TrimSuffix(str, suffix) ==
  IF HasSuffix(str, suffix) THEN SubSeq(str, 1, Len(str) - Len(suffix))
  ELSE str

\* estimateBitrate: a table in the first revision, the label's "_<n>kbps"
\* part in the last
estimateBitrate(rev, label) ==
  IF rev = "exact"
  THEN LET l == ToLower(label)
       IN  IF l = Chars("1080p") THEN 5000000
           ELSE IF l = Chars("720p") THEN 3000000
           ELSE IF l = Chars("480p") THEN 1500000
           ELSE IF l = Chars("360p") THEN 1000000
           ELSE IF l = Chars("240p") THEN 500000
           ELSE IF l = Chars("144p") THEN 150000
           ELSE 1000000
  ELSE LET parts == Split(label, "_")
       IN  IF Len(parts) > 1 /\ IsNumber(TrimSuffix(parts[2], Chars("kbps")))
           THEN ParseInt(TrimSuffix(parts[2], Chars("kbps"))) * 1000
           ELSE 1000000

\* resolutionFromLabel: on the lower-cased label in the first revision, on
\* the label's first "_" part as written in the last
resolutionFromLabel(rev, label) ==
  LET l == IF rev = "exact" THEN ToLower(label) ELSE Split(label, "_")[1]
  IN  IF l = Chars("1080p") THEN Chars("1920x1080")
      ELSE IF l = Chars("720p") THEN Chars("1280x720")
      ELSE IF l = Chars("480p") THEN Chars("854x480")
      ELSE IF l = Chars("360p") THEN Chars("640x360")
      ELSE IF l = Chars("240p") THEN Chars("426x240")
      ELSE IF l = Chars("144p") THEN Chars("256x144")
      ELSE Chars("640x360")

ManifestMeta(label, bitrate, resolution, url) ==
  [Label |-> label, Bitrate |-> bitrate, Resolution |-> resolution,
   ManifestURL |-> url]

\* the two lines WriteString adds for one entry
StreamInf(entry) ==
  << Chars("#EXT-X-STREAM-INF:BANDWIDTH=") \o FormatInt(entry.Bitrate)
       \o Chars(",RESOLUTION=") \o entry.Resolution,
     entry.ManifestURL >>

RECURSIVE EntryLines(_)
EntryLines(entries) ==
  IF entries = <<>> THEN <<>>
  ELSE StreamInf(Head(entries)) \o EntryLines(Tail(entries))

\* a master.m3u8 as its "\n"-terminated lines
HLSFile(entries) ==
  [exists |-> TRUE,
   lines |-> <<Chars("#EXTM3U"), Chars("#EXT-X-VERSION:3")>>
               \o EntryLines(entries)]

\* the ManifestMeta the manifester builds for a newly produced sub-manifest
NewEntry(rev, manifest) ==
  LET label == extractLabel(rev, manifest)
  IN  ManifestMeta(label, estimateBitrate(rev, label),
                   resolutionFromLabel(rev, label),
                   Join(label, Base(manifest)))

\* the entry generateHLSMaster writes for a sub-manifest
GeneratedEntry(rev, manifest) ==
  LET label == extractLabel(rev, manifest)
  IN  ManifestMeta(label, estimateBitrate(rev, label),
                   resolutionFromLabel(rev, label),
                   IF rev = "exact" THEN Join(label, Base(manifest))
                   ELSE Join(label, label \o Chars(".m3u8")))

\* parseHLSManifest over strings.Split(raw, "\n"): a file of terminated
\* lines splits into its lines and one empty string
RECURSIVE parseLines(_, _, _)
parseLines(rev, lines, i) ==
  IF i > Len(lines) - 1 THEN <<>>
  ELSE (IF HasPrefix(lines[i], Chars("#EXT-X-STREAM-INF"))
           /\ ~ Sscanf(lines[i]).err
        THEN <<ManifestMeta(extractLabel(rev, lines[i + 1]),
                            Sscanf(lines[i]).Bitrate,
                            Sscanf(lines[i]).Resolution, lines[i + 1])>>
        ELSE <<>>)
       \o parseLines(rev, lines, i + 1)

parseHLSManifest(rev, file) == parseLines(rev, file.lines \o <<(<<>>)>>, 1)

EntryLabelSet(entries) == {entries[i].Label : i \in DOMAIN entries}

\* a Go map filled in slice order: the last entry of a label stays
LastOf(entries, label) ==
  entries[Max({i \in DOMAIN entries : entries[i].Label = label})]

\* `merged`: the existing entries, overwritten by the new ones
Merged(existingEntries, newEntries) ==
  {LastOf(newEntries, l) : l \in EntryLabelSet(newEntries)}
    \cup {LastOf(existingEntries, l) :
            l \in EntryLabelSet(existingEntries) \ EntryLabelSet(newEntries)}

\* order := []string{...}
CanonicalOrder ==
  << Chars("144p"), Chars("240p"), Chars("360p"), Chars("480p"),
     Chars("720p"), Chars("1080p"), Chars("1440p"), Chars("2160p") >>

\* the orders a Go `range` can visit the members of a set in
Perms(S) ==
  {p \in [1..Cardinality(S) -> S] :
     \A i, j \in 1..Cardinality(S) : p[i] = p[j] => i = j}

\* the entries of the canonical labels from the last label down to the k-th
RECURSIVE SortedExact_Descending(_, _)
SortedExact_Descending(merged, k) ==
  IF k > Len(CanonicalOrder) THEN <<>>
  ELSE SortedExact_Descending(merged, k + 1)
       \o (IF \E e \in merged : e.Label = CanonicalOrder[k]
           THEN <<CHOOSE e \in merged : e.Label = CanonicalOrder[k]>>
           ELSE <<>>)

\* `sorted` of the first revision: merged[label] for each label of order
RECURSIVE SortedExact(_, _)
SortedExact(merged, k) ==
  IF k > Len(CanonicalOrder) THEN <<>>
  ELSE (IF \E e \in merged : e.Label = CanonicalOrder[k]
        THEN <<CHOOSE e \in merged : e.Label = CanonicalOrder[k]>>
        ELSE <<>>)
       \o SortedExact(merged, k + 1)

\* `sorted` of the last revision: for each label of order, every entry of
\* the map whose label starts with it, in the map's iteration order
RECURSIVE SortedPrefix(_, _)
SortedPrefix(merged, k) ==
  IF k > Len(CanonicalOrder) THEN {<<>>}
  ELSE {p \o rest :
          p \in Perms({e \in merged : HasPrefix(e.Label, CanonicalOrder[k])}),
          rest \in SortedPrefix(merged, k + 1)}

RECURSIVE NewEntries(_, _)
NewEntries(rev, manifests) ==
  IF manifests = <<>> THEN <<>>
  ELSE <<NewEntry(rev, Head(manifests))>> \o NewEntries(rev, Tail(manifests))

RECURSIVE GeneratedEntries(_, _)
GeneratedEntries(rev, manifests) ==
  IF manifests = <<>> THEN <<>>
  ELSE <<GeneratedEntry(rev, Head(manifests))>>
         \o GeneratedEntries(rev, Tail(manifests))

\* the contents reconcileHLSMaster can write over `existing`
reconcileHLSMaster(rev, existing, manifests) ==
  LET merged == Merged(parseHLSManifest(rev, existing),
                       NewEntries(rev, manifests))
  IN  IF rev = "exact"
      THEN {HLSFile(SortedExact(merged, 1))}
      ELSE {HLSFile(sorted) : sorted \in SortedPrefix(merged, 1)}

\* what generateHLSMaster writes
generateHLSMaster(rev, manifests) == HLSFile(GeneratedEntries(rev, manifests))

\* the Representation element generateDASHMaster writes for a sub-manifest
Representation(rev, manifest) ==
  LET label == extractLabel(rev, manifest)
  IN  << Chars("<Representation id=\"") \o label \o Chars("\" bandwidth=\"")
           \o FormatInt(estimateBitrate(rev, label)) \o Chars("\">"),
         Chars("<BaseURL>") \o Join(label, Base(manifest))
           \o Chars("</BaseURL>") >>

RECURSIVE Representations(_, _)
Representations(rev, manifests) ==
  IF manifests = <<>> THEN <<>>
  ELSE Representation(rev, Head(manifests))
         \o Representations(rev, Tail(manifests))

\* what generateDASHMaster writes to master.mpd
generateDASHMaster(rev, manifests) ==
  [exists |-> TRUE,
   lines |-> <<Chars("<MPD>"), Chars("<Period>")>>
               \o Representations(rev, manifests)
               \o <<Chars("</Period>"), Chars("</MPD>")>>]

MasterM3U8 == Join(OutputDir, Chars("master.m3u8"))

MasterMPD == Join(OutputDir, Chars("master.mpd"))

\* the revisions of dash.go that can reconcile: the first looks labels up in
\* the canonical order, the last matches them by prefix
ManifestRevisions == {"exact", "prefix"}

\* a call that returned: the function it selected, the path and the error it
\* returned, the master.m3u8 it read, and whether it reconciled the segment
\* result that the call before it had reconciled
ManifestCall(op, path, err, existing, repeat) ==
  [op |-> op, path |-> path, err |-> err, existing |-> existing,
   repeat |-> repeat]

\* a call that synthesizes the HLS master whatever the flag and the disk hold
GenerateMasterManifest_AlwaysSynthesizes(s, p, created) ==
  /\ seg' = s
  /\ preserve' = p
  /\ master' = [master EXCEPT
                  !.m3u8 = generateHLSMaster(manRevision, s.Manifests)]
  /\ mcall' = ManifestCall("generate", MasterM3U8, "none", NoFile, FALSE)
  /\ UNCHANGED manRevision

\* GenerateMasterManifest(s, p): the nil-and-empty check, the switch on the
\* format, and the function it selects; os.Create succeeds or fails
GenerateMasterManifest(s, p, created) ==
  /\ seg' = s
  /\ preserve' = p
  /\ IF s.nil \/ Len(s.Manifests) = 0
     THEN /\ mcall' = ManifestCall("validate", <<>>, "validate", NoFile, FALSE)
          /\ UNCHANGED master
     ELSE IF ToLower(s.Format) = Chars("hls") /\ p
     THEN IF ~ master.m3u8.exists
          THEN /\ mcall' = ManifestCall("reconcile", <<>>, "read_file", NoFile, FALSE)
               /\ UNCHANGED master
          ELSE IF ~ created
          THEN /\ mcall' = ManifestCall("reconcile", <<>>, "write_file",
                                        master.m3u8, FALSE)
               /\ UNCHANGED master
          ELSE /\ \E written \in
                    reconcileHLSMaster(manRevision, master.m3u8, s.Manifests) :
                    master' = [master EXCEPT !.m3u8 = written]
               /\ mcall' = ManifestCall("reconcile", MasterM3U8, "none",
                    master.m3u8,
                    mcall.op = "reconcile" /\ mcall.err = "none" /\ seg = s)
     ELSE IF ToLower(s.Format) = Chars("hls")
     THEN IF ~ created
          THEN /\ mcall' = ManifestCall("generate", <<>>, "write_file", NoFile, FALSE)
               /\ UNCHANGED master
          ELSE /\ master' = [master EXCEPT
                    !.m3u8 = generateHLSMaster(manRevision, s.Manifests)]
               /\ mcall' = ManifestCall("generate", MasterM3U8, "none", NoFile, FALSE)
     ELSE IF ToLower(s.Format) = Chars("dash")
     THEN IF ~ created
          THEN /\ mcall' = ManifestCall("dash", <<>>, "write_file", NoFile, FALSE)
               /\ UNCHANGED master
          ELSE /\ master' = [master EXCEPT
                    !.mpd = generateDASHMaster(manRevision, s.Manifests)]
               /\ mcall' = ManifestCall("dash", MasterMPD, "none", NoFile, FALSE)
     ELSE /\ mcall' = ManifestCall("validate", <<>>, "validate", NoFile, FALSE)
          /\ UNCHANGED master
  /\ UNCHANGED manRevision

\* the sub-manifest SegmentMedia writes for a label
ManifestPath(label, fmt) ==
  Join(Join(OutputDir, label), label \o <<".">> \o manifestExtension(fmt))

\* labels LabelFromFilename gives for the variants Transcode produces
SegmentLabels ==
  {Chars("720p"), Chars("1080p"), Chars("1440p"), Chars("unknown")}

\* the *SegmentResult a caller passes: nil, or one with up to MaxManifests
\* sub-manifests
SegInputs ==
  {NoSegResult} \cup
  UNION { { [nil |-> FALSE, Format |-> f, Success |-> TRUE, Manifests |-> ms,
             Errors |-> <<>>] :
              ms \in UNION {[1..n -> {ManifestPath(l, f) : l \in SegmentLabels}] :
                              n \in 0..MaxManifests} } :
          f \in Formats }

\* the master.m3u8 an earlier run left: none, one without entries, one
\* generateHLSMaster wrote for 1080p and 720p, and one it wrote for a
\* sub-manifest named by resolution and bitrate (720p_3000kbps.m3u8)
ExistingMasters ==
  { NoFile,
    HLSFile(<<>>),
    generateHLSMaster("exact", << ManifestPath(Chars("1080p"), Chars("hls")),
                                  ManifestPath(Chars("720p"), Chars("hls")) >>),
    generateHLSMaster("prefix",
      << ManifestPath(Chars("720p_3000kbps"), Chars("hls")) >>) }

\* a caller hands GenerateMasterManifest what SegmentMedia returned
ManifestFromSegments(p, created) ==
  /\ spc \in {"returned", "rejected"}
  /\ mcall.op = "none"
  /\ GenerateMasterManifest(segResult, p, created)
  /\ UNCHANGED <<scalerVars, transcodeVars, segmentVars>>

\* a caller hands GenerateMasterManifest the SegmentResult it holds, again
\* on every run over the output directory
ManifestFromCaller(p, created) ==
  /\ spc = "idle"
  /\ GenerateMasterManifest(seg, p, created)
  /\ UNCHANGED <<scalerVars, transcodeVars, segmentVars>>

ScalerIdle ==
  /\ StandardPresets = ShippedPresets
  /\ ctx = ZeroCtx
  /\ current = NoPreset
  /\ call = NoCall

InitSegment ==
  /\ ScalerIdle
  /\ TranscodeIdle
  /\ transcoded \in TranscodedInputs
  /\ format \in Formats
  /\ spc = "start"
  /\ swpc = <<>>
  /\ mu = 0
  /\ segResult = NoSegResult
  /\ segErr = "none"
  /\ mediaInfo = <<>>
  /\ cmd = <<>>
  /\ dirs = {}
  /\ master = NoMaster
  /\ seg = NoSegResult
  /\ preserve = FALSE
  /\ manRevision \in ManifestRevisions
  /\ mcall = NoManifestCall

NextSegment ==
  \/ SegmentMediaStart
  \/ \E w \in DOMAIN swpc, ok \in BOOLEAN : MkdirAll(w, ok)
  \/ \E w \in DOMAIN swpc, info \in KeyframeInputs : AnalyzeMedia(w, info)
  \/ \E w \in DOMAIN swpc, ok \in BOOLEAN : RunSegmentCommand(w, ok)
  \/ \E w \in DOMAIN swpc : LockSegResult(w)
  \/ \E w \in DOMAIN swpc : RecordSegment(w)
  \/ SegmentMediaReturn
  \/ \E p \in BOOLEAN, created \in BOOLEAN : ManifestFromSegments(p, created)

SpecSegment == InitSegment /\ [][NextSegment]_vars

InitManifest ==
  /\ ScalerIdle
  /\ TranscodeIdle
  /\ transcoded = NoTranscoded
  /\ format \in Formats
  /\ spc = "idle"
  /\ swpc = <<>>
  /\ mu = 0
  /\ segResult = NoSegResult
  /\ segErr = "none"
  /\ mediaInfo = <<>>
  /\ cmd = <<>>
  /\ dirs = {}
  /\ master \in {[m3u8 |-> m, mpd |-> NoFile] : m \in ExistingMasters}
  /\ seg \in SegInputs
  /\ seg.nil \/ seg.Format = format
  /\ preserve = FALSE
  /\ manRevision \in ManifestRevisions
  /\ mcall = NoManifestCall

NextManifest ==
  \E p \in BOOLEAN, created \in BOOLEAN : ManifestFromCaller(p, created)

SpecManifest == InitManifest /\ [][NextManifest]_vars

(***************************************************************************)
(* pipeline.Run: Transcode, then SegmentMedia, then GenerateMasterManifest  *)
(***************************************************************************)
\* profiles of the pipeline runs: ladders of one and two entries whose
\* variants are encoded, copied, filtered out or duplicates of each other
PipelineLadders ==
  { << >>,
    << Variant(Chars("4K"), Chars("3000k")) >>,
    << Variant(Chars("720p"), Chars("3000k")) >>,
    << Variant(Chars("720p"), Chars("3000k")),
       Variant(Chars("1080p"), Chars("5000k")) >>,
    << Variant(Chars("720p"), Chars("3000k")),
       Variant(Chars("720p"), Chars("3000k")) >> }

\* a caller that segments while Transcode is still waiting for its goroutines
CallSegmentMedia_Early ==
  /\ tpc \in {"wait", "returned"}
  /\ spc = "idle"
  /\ transcoded' = [nil |-> result.nil, Variants |-> result.Variants,
                    SegmentLength |-> transcoded.SegmentLength]
  /\ spc' = "start"
  /\ UNCHANGED <<scalerVars, transcodeVars, manifestVars, format, swpc, mu,
                 segResult, segErr, mediaInfo, cmd, dirs>>

\* segResult, err := segmenter.SegmentMedia(result, config.StreamFormat,
\* media), reached only when Transcode returned a nil error; the segment
\* length travels in result.Profile
CallSegmentMedia ==
  /\ tpc = "returned"
  /\ spc = "idle"
  /\ transcoded' = [nil |-> result.nil, Variants |-> result.Variants,
                    SegmentLength |-> transcoded.SegmentLength]
  /\ spc' = "start"
  /\ UNCHANGED <<scalerVars, transcodeVars, manifestVars, format, swpc, mu,
                 segResult, segErr, mediaInfo, cmd, dirs>>

\* manifester.GenerateMasterManifest(segResult, profile.PreserveManifest),
\* reached only when SegmentMedia returned a nil error
CallGenerateMasterManifest(p, created) ==
  /\ spc = "returned"
  /\ mcall.op = "none"
  /\ GenerateMasterManifest(segResult, p, created)
  /\ UNCHANGED <<scalerVars, transcodeVars, segmentVars>>

InitPipeline ==
  /\ ScalerIdle
  /\ revision \in {"passthrough", "progress"}
  /\ profile \in PipelineLadders
  /\ slug = Slug
  /\ media \in MediaInputs
  /\ tpc = "start"
  /\ allowed = <<>>
  /\ workers = <<>>
  /\ wpc = <<>>
  /\ seen = {}
  /\ seenMu = 0
  /\ result = NoResult
  /\ scan = 0
  /\ filtered = <<>>
  /\ cmdErr = <<>>
  /\ ProgressIdle
  /\ transcoded \in {[NoTranscoded EXCEPT !.SegmentLength = len] :
                       len \in SegmentLengths}
  /\ format \in Formats
  /\ spc = "idle"
  /\ swpc = <<>>
  /\ mu = 0
  /\ segResult = NoSegResult
  /\ segErr = "none"
  /\ mediaInfo = <<>>
  /\ cmd = <<>>
  /\ dirs = {}
  /\ master = NoMaster
  /\ seg = NoSegResult
  /\ preserve = FALSE
  /\ manRevision \in ManifestRevisions
  /\ mcall = NoManifestCall

NextPipeline ==
  \/ NextTranscode
  \/ CallSegmentMedia
  \/ SegmentMediaStart
  \/ \E w \in DOMAIN swpc, ok \in BOOLEAN : MkdirAll(w, ok)
  \/ \E w \in DOMAIN swpc, info \in KeyframeInputs : AnalyzeMedia(w, info)
  \/ \E w \in DOMAIN swpc, ok \in BOOLEAN : RunSegmentCommand(w, ok)
  \/ \E w \in DOMAIN swpc : LockSegResult(w)
  \/ \E w \in DOMAIN swpc : RecordSegment(w)
  \/ SegmentMediaReturn
  \/ \E p \in BOOLEAN, created \in BOOLEAN :
       CallGenerateMasterManifest(p, created)

SpecPipeline == InitPipeline /\ [][NextPipeline]_vars

(***************************************************************************)
(* pipeline.Run with the decision engine's step in front of Transcode      *)
(***************************************************************************)
\* config.ClientContext of a run: the zero value, a starved client with
\* failures, and a fast one that overrides and prefers upscaling
PipelineContexts ==
  { ZeroCtx,
    [BandwidthKbps |-> 250, PreferUpscale |-> FALSE, ManualOverride |-> <<>>,
     RecentFailures |-> MaxFailures, AdaptiveEnabled |-> TRUE],
    [BandwidthKbps |-> 12000, PreferUpscale |-> TRUE,
     ManualOverride |-> Chars("720p"), RecentFailures |-> 0,
     AdaptiveEnabled |-> FALSE] }

\* initialPreset, err := scaler.SelectPreset(media.Width, media.Height,
\* &config.ClientContext); an error ends the run, the preset is dropped
\* (`_ = initialPreset`), and Transcode is called next
RunSelectPreset ==
  /\ tpc = "idle"
  /\ call = NoCall
  /\ LET d == SelectPreset(StandardPresets, media.Width, media.Height, ctx)
     IN  /\ call' = [op |-> "SelectPreset", srcW |-> media.Width,
                     srcH |-> media.Height, nilCtx |-> FALSE,
                     in |-> NoPreset, out |-> d.Preset, err |-> d.err,
                     fallback |-> d.fallback]
         /\ tpc' = IF d.err THEN "idle" ELSE "start"
  /\ UNCHANGED <<StandardPresets, ctx, current, downstreamVars, progressVars,
                 profile, slug, media, revision, allowed, workers, wpc, seen,
                 seenMu, result, scan, filtered, cmdErr>>

\* the ladders of a run: those above and one that lists a label at two
\* bitrates, as DefaultVariants does
RunLadders ==
  PipelineLadders \cup
    { << Variant(Chars("720p"), Chars("3000k")),
         Variant(Chars("720p"), Chars("2500k")) >> }

InitRun ==
  /\ StandardPresets = ShippedPresets
  /\ ctx \in PipelineContexts
  /\ current = NoPreset
  /\ call = NoCall
  /\ revision \in {"passthrough", "progress"}
  /\ profile \in RunLadders
  /\ slug = Slug
  /\ media \in MediaInputs
  /\ tpc = "idle"
  /\ allowed = <<>>
  /\ workers = <<>>
  /\ wpc = <<>>
  /\ seen = {}
  /\ seenMu = 0
  /\ result = NoResult
  /\ scan = 0
  /\ filtered = <<>>
  /\ cmdErr = <<>>
  /\ ProgressIdle
  /\ transcoded = [NoTranscoded EXCEPT !.SegmentLength = Max(SegmentLengths)]
  /\ format = Chars("hls")
  /\ spc = "idle"
  /\ swpc = <<>>
  /\ mu = 0
  /\ segResult = NoSegResult
  /\ segErr = "none"
  /\ mediaInfo = <<>>
  /\ cmd = <<>>
  /\ dirs = {}
  /\ master = NoMaster
  /\ seg = NoSegResult
  /\ preserve = FALSE
  /\ manRevision = "prefix"
  /\ mcall = NoManifestCall

NextRun ==
  \/ RunSelectPreset
  \/ NextPipeline

SpecRun == InitRun /\ [][NextRun]_vars

(***************************************************************************)
(* Transcode over several input file names and ladders                     *)
(***************************************************************************)
\* slugs of mov.mp4, clip.mp4 and my_mov.mp4
Slugs == {Chars("mov"), Chars("clip"), Chars("my_mov")}

\* transcoder.DefaultVariants
DefaultVariants ==
  << Variant(Chars("1080p"), Chars("8000k")),
     Variant(Chars("1080p"), Chars("5000k")),
     Variant(Chars("720p"), Chars("3000k")),
     Variant(Chars("720p"), Chars("2500k")),
     Variant(Chars("480p"), Chars("1500k")),
     Variant(Chars("360p"), Chars("1000k")),
     Variant(Chars("240p"), Chars("500k")),
     Variant(Chars("144p"), Chars("150k")) >>

\* ladders of one or two entries, and the pairs of neighbours in
\* DefaultVariants
ShortLadders ==
  {ladder \in Ladders : Len(ladder) \in 1..2}
    \cup {SubSeq(DefaultVariants, i, i + 1) :
            i \in 1..(Len(DefaultVariants) - 1)}

InitNames ==
  /\ ScalerIdle
  /\ revision \in {"passthrough", "progress"}
  /\ profile \in ShortLadders
  /\ slug \in Slugs
  /\ revision = "passthrough" => OneBitratePerLabel(profile)
  /\ media \in MediaInputs
  /\ tpc = "start"
  /\ allowed = <<>>
  /\ workers = <<>>
  /\ wpc = <<>>
  /\ seen = {}
  /\ seenMu = 0
  /\ result = NoResult
  /\ scan = 0
  /\ filtered = <<>>
  /\ cmdErr = <<>>
  /\ ProgressIdle
  /\ SegmentIdle
  /\ ManifestIdle

SpecNames == InitNames /\ [][NextTranscode]_vars

(***************************************************************************)
(* Transcode's progress logging, and commands that never exit              *)
(***************************************************************************)
\* percentages a reader reports
Percents == {50, 100}

\* goroutines Transcode can launch
WorkerIds == 1..MaxLadder

\* the logging goroutine as holder of progressMu
TickerHolder == Len(workers) + 1

\* case <-ticker.C
TickerFire ==
  /\ ticker = "select"
  /\ ticker' = "lock"
  /\ UNCHANGED <<scalerVars, downstreamVars, progressMap, progressMu, done,
                 reader, profile, slug, media, revision, tpc, allowed, workers,
                 wpc, seen, seenMu, result, scan, filtered, cmdErr>>

\* progressMu.Lock() of the logging goroutine
TickerLock ==
  /\ ticker = "lock"
  /\ progressMu = 0
  /\ progressMu' = TickerHolder
  /\ ticker' = "average"
  /\ UNCHANGED <<scalerVars, downstreamVars, progressMap, done, reader,
                 profile, slug, media, revision, tpc, allowed, workers, wpc, seen,
                 seenMu, result, scan, filtered, cmdErr>>

\* an empty map: unlock and continue; otherwise log the average and unlock
TickerLog ==
  /\ ticker = "average"
  /\ progressMu = TickerHolder
  /\ progressMu' = 0
  /\ ticker' = "select"
  /\ UNCHANGED <<scalerVars, downstreamVars, progressMap, done, reader,
                 profile, slug, media, revision, tpc, allowed, workers, wpc, seen,
                 seenMu, result, scan, filtered, cmdErr>>

\* a logging goroutine that returns at the first tick after the last one
TickerStop_OnIdle ==
  /\ ticker = "select"
  /\ \A w \in DOMAIN wpc : wpc[w] # "encode"
  /\ ticker' = "stopped"
  /\ UNCHANGED <<scalerVars, downstreamVars, progressMap, progressMu, done,
                 reader, profile, slug, media, revision, tpc, allowed, workers,
                 wpc, seen, seenMu, result, scan, filtered, cmdErr>>

\* case <-done: return
TickerStop ==
  /\ ticker = "select"
  /\ done > 0
  /\ ticker' = "stopped"
  /\ UNCHANGED <<scalerVars, downstreamVars, progressMap, progressMu, done,
                 reader, profile, slug, media, revision, tpc, allowed, workers,
                 wpc, seen, seenMu, result, scan, filtered, cmdErr>>

\* the reader of a running command calls onProgress: progressMu.Lock()
OnProgress(w) ==
  /\ wpc[w] \in {"encode", "hung"}
  /\ reader[w] = "idle"
  /\ progressMu = 0
  /\ progressMu' = w
  /\ reader' = [reader EXCEPT ![w] = "store"]
  /\ UNCHANGED <<scalerVars, downstreamVars, progressMap, ticker, done,
                 profile, slug, media, revision, tpc, allowed, workers, wpc, seen,
                 seenMu, result, scan, filtered, cmdErr>>

\* progressMap[key] = percent; progressMu.Unlock()
StoreProgress(w, percent) ==
  /\ reader[w] = "store"
  /\ progressMu = w
  /\ progressMap' =
       [k \in DOMAIN progressMap \cup {Key(workers[w])} |->
          IF k = Key(workers[w]) THEN percent ELSE progressMap[k]]
  /\ progressMu' = 0
  /\ reader' = [reader EXCEPT ![w] = "idle"]
  /\ UNCHANGED <<scalerVars, downstreamVars, ticker, done, profile, slug, media,
                 revision, tpc, allowed, workers, wpc, seen, seenMu, result,
                 scan, filtered, cmdErr>>

\* execCmd.Wait() of goroutine w never returns: the command does not exit
Hang(w) ==
  /\ wpc[w] = "encode"
  /\ wpc' = [wpc EXCEPT ![w] = "hung"]
  /\ UNCHANGED <<scalerVars, downstreamVars, progressVars, profile, slug, media,
                 revision, tpc, allowed, workers, seen, seenMu, result, scan,
                 filtered, cmdErr>>

\* execCmd.Run() of segment goroutine w never returns
HangSegment(w) ==
  /\ spc = "wait"
  /\ swpc[w] = "run"
  /\ swpc' = [swpc EXCEPT ![w] = "hung"]
  /\ UNCHANGED <<scalerVars, transcodeVars, manifestVars, transcoded, format,
                 spc, mu, segResult, segErr, mediaInfo, cmd, dirs>>

\* the steps of the goroutine that called Transcode
CallerStep ==
  \/ \E ok \in BOOLEAN : Setup(ok)
  \/ Filter
  \/ Dispatch
  \/ Return

\* the steps of worker goroutine w whose command exits
WorkerStep(w) ==
  /\ w \in DOMAIN workers
  /\ \/ LockSeen(w)
     \/ CheckSeen(w)
     \/ \E ok \in BOOLEAN : RunCommand(w, ok)
     \/ LockResult(w)
     \/ Record(w)

\* a reader inside onProgress leaves it
ReaderStep(w) ==
  /\ w \in DOMAIN workers
  /\ \E percent \in Percents : StoreProgress(w, percent)

InitProgress ==
  /\ ScalerIdle
  /\ revision = "progress"
  /\ profile \in PipelineLadders
  /\ slug = Slug
  /\ media \in MediaInputs
  /\ tpc = "start"
  /\ allowed = <<>>
  /\ workers = <<>>
  /\ wpc = <<>>
  /\ seen = {}
  /\ seenMu = 0
  /\ result = NoResult
  /\ scan = 0
  /\ filtered = <<>>
  /\ cmdErr = <<>>
  /\ ProgressIdle
  /\ SegmentIdle
  /\ ManifestIdle

NextProgress ==
  \/ CallerStep
  \/ \E w \in WorkerIds : WorkerStep(w)
  \/ \E w \in WorkerIds : ReaderStep(w)
  \/ \E w \in DOMAIN workers : OnProgress(w)
  \/ \E w \in DOMAIN workers : Hang(w)
  \/ TickerFire
  \/ TickerLock
  \/ TickerLog
  \/ TickerStop

\* every goroutine that can take a step eventually takes one, a command that
\* does not hang exits, a mutex is handed to a goroutine that keeps asking
\* for it, and a select with `done` ready eventually takes that case
FairProgress ==
  /\ WF_vars(CallerStep)
  /\ \A w \in WorkerIds : WF_vars(WorkerStep(w))
  /\ \A w \in WorkerIds : WF_vars(ReaderStep(w))
  /\ SF_vars(TickerLock)
  /\ WF_vars(TickerLog)
  /\ SF_vars(TickerStop)

SpecProgressFair == InitProgress /\ [][NextProgress]_vars /\ FairProgress

\* pipeline runs in which a command of either stage may never exit
NextPipelineHang ==
  \/ NextPipeline
  \/ \E w \in DOMAIN workers : Hang(w)
  \/ \E w \in DOMAIN swpc : HangSegment(w)

\* a goroutine of the run that can take a step eventually takes one
SpecPipelineFair ==
  InitPipeline /\ [][NextPipelineHang]_vars /\ WF_vars(NextPipeline)

(***************************************************************************)
(* Properties of SegmentMedia and GenerateMasterManifest                   *)
(***************************************************************************)
\* C15: SegmentMedia given a nil result or one without variants, and
\* GenerateMasterManifest given a nil segment result or one without
\* sub-manifests, return a validation error with a nil result (an empty
\* path), and have started no goroutine, created no directory and written no
\* file.
C15_EmptyInputIsRejected ==
  /\ (spc # "start" /\ (transcoded.nil \/ transcoded.Variants = <<>>)) =>
       /\ spc = "rejected"
       /\ segErr = "validate"
       /\ segResult.nil
       /\ swpc = <<>>
       /\ dirs = {}
  /\ (mcall.op # "none" /\ (seg.nil \/ seg.Manifests = <<>>)) =>
       /\ mcall.err = "validate"
       /\ mcall.path = <<>>
       /\ master = NoMaster
       /\ ~ master.m3u8.exists /\ ~ master.mpd.exists
  /\ spc = "rejected" => (transcoded.nil \/ transcoded.Variants = <<>>)

C15_Witness ==
  /\ spc = "rejected"
  /\ ~ transcoded.nil
  /\ transcoded.Variants = <<>>
  /\ segErr = "validate"
  /\ mcall.op = "validate"
  /\ seg.nil

\* the whole number of seconds nearest to an interval given in hundredths,
\* a half rounding up
NearestSecond(hundredths) ==
  CHOOSE n \in 0..(hundredths \div 100 + 1) :
    100 * n - 50 <= hundredths /\ hundredths < 100 * n + 50

\* C16: the segment duration a goroutine passes to the segmenting command is
\* the profile's SegmentLength when that is positive; otherwise the measured
\* keyframe interval rounded to the nearest whole second when one was
\* measured (3.2 gives 3, 3.5 gives 4); otherwise a default of at least one
\* second.
C16_EffectiveSegmentDuration ==
  \A w \in DOMAIN swpc :
    swpc[w] = "run" =>
      IF transcoded.SegmentLength > 0
      THEN cmd[w].segLen = transcoded.SegmentLength
      ELSE IF ~ mediaInfo[w].nil /\ mediaInfo[w].KeyframeInterval > 0
      THEN cmd[w].segLen = NearestSecond(mediaInfo[w].KeyframeInterval)
      ELSE cmd[w].segLen >= 1

\* goroutines that have returned
SegmentsDone == {w \in DOMAIN swpc : swpc[w] = "done"}

\* C17: in SegmentMedia every goroutine that has returned has added exactly
\* one outcome, a manifest path or an error tagged "segment" or "filesystem",
\* and no other has added any; so when SegmentMedia returns for n variants,
\* len(Manifests) + len(Errors) = n. Success is false exactly when Errors is
\* not empty.
C17_OneOutcomePerVariant ==
  ~ segResult.nil =>
    /\ Len(segResult.Manifests) + Len(segResult.Errors)
         = Cardinality(SegmentsDone)
    /\ \A i \in DOMAIN segResult.Errors :
         segResult.Errors[i].Op \in {"segment", "filesystem"}
    /\ \A i \in DOMAIN segResult.Manifests :
         \E w \in SegmentsDone :
           segResult.Manifests[i] = ManifestPath(SegLabel(w), format)
    /\ spc = "returned" =>
         Len(segResult.Manifests) + Len(segResult.Errors)
           = Len(transcoded.Variants)
    /\ ~ segResult.Success <=> segResult.Errors # <<>>

C17_Witness ==
  /\ spc = "returned"
  /\ Len(transcoded.Variants) = 2
  /\ Len(segResult.Manifests) = 1
  /\ Len(segResult.Errors) = 1
  /\ ~ segResult.Success

(***************************************************************************)
(* Properties of reconcileHLSMaster                                        *)
(***************************************************************************)
Reconciled == mcall.op = "reconcile" /\ mcall.err = "none"

\* the entries a master.m3u8 lists after its two header lines, each with the
\* label its URL names as directory
Listed(file) ==
  [i \in 1..((Len(file.lines) - 2) \div 2) |->
     [inf |-> file.lines[2 * i + 1], url |-> file.lines[2 * i + 2],
      label |-> Split(file.lines[2 * i + 2], "/")[1]]]

ListedLabels(file) == {Listed(file)[i].label : i \in DOMAIN Listed(file)}

\* the labels of the sub-manifests handed in: <dir>/<label>/<label>.m3u8
HandedLabels ==
  {Split(seg.Manifests[i], "/")[2] : i \in DOMAIN seg.Manifests}

\* place of a label's resolution (the label up to its first "_") in 144p <
\* 240p < 360p < 480p < 720p < 1080p < 1440p < 2160p, 0 for any other
Rank(label) ==
  LET res == Split(label, "_")[1]
  IN  IF res = Chars("144p") THEN 1
      ELSE IF res = Chars("240p") THEN 2
      ELSE IF res = Chars("360p") THEN 3
      ELSE IF res = Chars("480p") THEN 4
      ELSE IF res = Chars("720p") THEN 5
      ELSE IF res = Chars("1080p") THEN 6
      ELSE IF res = Chars("1440p") THEN 7
      ELSE IF res = Chars("2160p") THEN 8
      ELSE 0

\* C18: reconciling a segment result against the manifest that reconciling
\* the same segment result has just written leaves the manifest's content as
\* it was.
C18_ReconcileIdempotent ==
  (Reconciled /\ mcall.repeat) => master.m3u8 = mcall.existing

\* C19: the manifest reconcileHLSMaster writes lists its entries in the
\* canonical ascending order 144p, 240p, 360p, 480p, 720p, 1080p, 1440p,
\* 2160p, with at most one entry per label.
C19_CanonicalOrderOneEach ==
  Reconciled =>
    /\ \A i \in DOMAIN Listed(master.m3u8) :
         Rank(Listed(master.m3u8)[i].label) > 0
    /\ \A i, j \in DOMAIN Listed(master.m3u8) :
         i < j =>
           /\ Rank(Listed(master.m3u8)[i].label)
                <= Rank(Listed(master.m3u8)[j].label)
           /\ Listed(master.m3u8)[i].label # Listed(master.m3u8)[j].label

\* an old manifest listing 1080p before 720p, reconciled with 1440p
C19_Witness ==
  /\ Reconciled
  /\ Len(Listed(mcall.existing)) = 2
  /\ Listed(mcall.existing)[1].label = Chars("1080p")
  /\ Listed(mcall.existing)[2].label = Chars("720p")
  /\ Len(Listed(master.m3u8)) = 3
  /\ Listed(master.m3u8)[1].label = Chars("720p")
  /\ Listed(master.m3u8)[3].label = Chars("1440p")

\* C20: after a reconcile the labels listed are exactly those of the old
\* manifest together with those handed in; a label handed in is listed with
\* the new sub-manifest's URL; an entry only the old manifest had is listed
\* with its lines unchanged; nothing is dropped.
C20_UnionOfOldAndNew ==
  Reconciled =>
    /\ ListedLabels(master.m3u8) = ListedLabels(mcall.existing) \cup HandedLabels
    /\ \A l \in HandedLabels :
         \E i \in DOMAIN Listed(master.m3u8) :
           /\ Listed(master.m3u8)[i].label = l
           /\ Listed(master.m3u8)[i].url = Join(l, l \o Chars(".m3u8"))
    /\ \A k \in DOMAIN Listed(mcall.existing) :
         Listed(mcall.existing)[k].label \notin HandedLabels =>
           \E i \in DOMAIN Listed(master.m3u8) :
             Listed(master.m3u8)[i] = Listed(mcall.existing)[k]

(***************************************************************************)
(* Properties of the pipeline                                              *)
(***************************************************************************)
\* C12: Transcode fails as a call only in its setup (path validation and
\* creation of the output directory), before a result or a goroutine exists;
\* past the setup it returns a non-nil result whose error list and Success
\* flag hold the failures of its commands.  SegmentMedia past its input
\* check returns a non-nil result and a nil error, and every failed
\* directory or command of a variant is an entry of the result's error list
\* with Success false, also when every variant fails.
C12_FailuresStayInTheResult ==
  /\ tpc = "failed" => (result.nil /\ workers = <<>> /\ cmdErr = <<>>)
  /\ tpc = "returned" =>
       /\ ~ result.nil
       /\ Failed # {} => (~ result.Success /\ result.Errors # <<>>)
  /\ spc \in {"wait", "returned"} => (~ segResult.nil /\ segErr = "none")
  /\ spc = "returned" =>
       /\ Len(segResult.Manifests) + Len(segResult.Errors)
            = Len(transcoded.Variants)
       /\ segResult.Errors # <<>> => ~ segResult.Success

\* Transcode returned with a failed and a successful encode, and SegmentMedia
\* returned with every variant failed
C12_Witness ==
  /\ tpc = "returned"
  /\ Failed # {}
  /\ Encoded # {}
  /\ spc = "returned"
  /\ segResult.Manifests = <<>>
  /\ Len(segResult.Errors) = Len(transcoded.Variants)

\* the pipeline has run to the end: GenerateMasterManifest returned a path
PipelineDone == mcall.op # "none" /\ mcall.err = "none"

\* the labels the top-level manifest lists, in the order of the file: the
\* directory of each URI of master.m3u8, of each BaseURL of master.mpd
MasterLabels ==
  IF format = Chars("hls")
  THEN [i \in DOMAIN Listed(master.m3u8) |-> Listed(master.m3u8)[i].label]
  ELSE [i \in 1..((Len(master.mpd.lines) - 4) \div 2) |->
          Split(SubSeq(master.mpd.lines[2 * i + 2], Len(Chars("<BaseURL>")) + 1,
                       Len(master.mpd.lines[2 * i + 2])), "/")[1]]

DistinctLabels(ladder) ==
  \A i, j \in DOMAIN ladder :
    NormalizeLabel(ladder[i].Resolution) = NormalizeLabel(ladder[j].Resolution)
      => i = j

\* C21: when a pipeline run over a ladder of distinct labels ends with every
\* encode and every segmentation succeeded, Transcode's result holds one
\* variant and SegmentMedia's one sub-manifest for each ladder entry no
\* taller than the source, and the one top-level manifest lists them by
\* ascending resolution, in whatever order the goroutines completed.
C21_EndToEndAscending ==
  (/\ PipelineDone
   /\ DistinctLabels(profile)
   /\ result.Errors = <<>>
   /\ segResult.Errors = <<>>) =>
    /\ Len(result.Variants) = Len(SelectSeq(profile, Eligible))
    /\ Len(segResult.Manifests) = Len(SelectSeq(profile, Eligible))
    /\ Len(MasterLabels) = Len(SelectSeq(profile, Eligible))
    /\ \A i, j \in DOMAIN MasterLabels :
         i < j => Rank(MasterLabels[i]) < Rank(MasterLabels[j])

\* the *Report Run and RunPipeline return (nil with an error when a stage
\* fails as a call): the counts and the error lists of both stages, then the
\* error of GenerateThumbnails when it returns one
Report(thumbnailErr) ==
  [nil |-> tpc = "failed" \/ spc = "rejected" \/ mcall.err # "none",
   ManifestPath |-> mcall.path,
   VariantCount |-> Len(result.Variants),
   ManifestCount |-> Len(segResult.Manifests),
   Errors |-> result.Errors \o segResult.Errors
                \o (IF thumbnailErr
                    THEN << [Stage |-> "thumbnail"] >> ELSE << >>)]

\* the labels of the sub-manifests SegmentMedia returned
SegmentedLabels ==
  {Split(segResult.Manifests[i], "/")[2] : i \in DOMAIN segResult.Manifests}

\* C22: a pipeline run in which some variant was encoded and segmented while
\* others failed at either stage, and whose master file could be created,
\* returns a report with the path of the top-level manifest; the manifest
\* lists exactly the renditions that were segmented, and the report's error
\* list holds every error of Transcode's result and of SegmentMedia's.
C22_PartialFailureStillYieldsManifest ==
  \A thumbnailErr \in BOOLEAN :
    (/\ mcall.op # "none"
     /\ mcall.err # "write_file"
     /\ segResult.Manifests # <<>>
     /\ result.Errors # <<>> \/ segResult.Errors # <<>>) =>
      LET r == Report(thumbnailErr)
          n == Len(result.Errors)
      IN  /\ ~ r.nil
          /\ r.ManifestPath \in {MasterM3U8, MasterMPD}
          /\ Len(MasterLabels) = Len(segResult.Manifests)
          /\ {MasterLabels[i] : i \in DOMAIN MasterLabels} = SegmentedLabels
          /\ SubSeq(r.Errors, 1, n) = result.Errors
          /\ SubSeq(r.Errors, n + 1, n + Len(segResult.Errors))
               = segResult.Errors
          /\ n >= Cardinality(Failed)

\* C23: a segment goroutine exists only after Transcode has returned, that
\* is after every encode goroutine has finished; the segment goroutines are
\* one per variant of Transcode's result, whose append was committed, and
\* none of them works on the output of an encode that failed.
C23_StageBarrier ==
  swpc # <<>> =>
    /\ tpc = "returned"
    /\ \A w \in DOMAIN wpc : wpc[w] \in {"done", "skipped"}
    /\ DOMAIN swpc = DOMAIN result.Variants
    /\ \A k \in DOMAIN swpc : transcoded.Variants[k] = result.Variants[k]
    /\ \A w \in Failed : \A k \in DOMAIN swpc :
         transcoded.Variants[k].OutputFilename # EncodedName(w)

\* a segment goroutine runs its command after one encode failed and another
\* succeeded
C23_Witness ==
  /\ \E k \in DOMAIN swpc : swpc[k] = "run"
  /\ Failed # {}
  /\ Encoded # {}

(***************************************************************************)
(* Properties of the goroutines' locks and of termination                  *)
(***************************************************************************)
\* no goroutine of either stage holds its stage's mutex while its command runs
NoLockAcrossCommand ==
  /\ \A w \in DOMAIN wpc : wpc[w] \in {"encode", "hung"} => seenMu # w
  /\ \A w \in DOMAIN swpc : swpc[w] \in {"run", "hung"} => mu # w

\* every goroutine launched so far has committed its outcome or returned,
\* except those whose command never exits
SiblingsSettled ==
  /\ tpc \in {"failed", "wait", "returned"}
  /\ \A w \in DOMAIN wpc : wpc[w] \in {"done", "skipped", "hung"}
  /\ \A w \in DOMAIN swpc : swpc[w] \in {"done", "hung"}

\* C24: a goroutine of Transcode never holds seenMu, and one of SegmentMedia
\* never holds mu, while its external command is running; and whether a
\* command fails or never exits, every other goroutine eventually commits
\* its own variant, manifest or error and returns.
C24_NoLockAcrossCommandSiblingsCommit ==
  /\ []NoLockAcrossCommand
  /\ <>[]SiblingsSettled

\* an encode goroutine has committed while its sibling's command hangs, and
\* likewise a segment goroutine
C24_Witness ==
  \/ \E w1, w2 \in DOMAIN wpc : wpc[w1] = "hung" /\ wpc[w2] = "done"
       /\ Len(result.Variants) + Len(result.Errors) = 1
  \/ \E w1, w2 \in DOMAIN swpc : swpc[w1] = "hung" /\ swpc[w2] = "done"

\* some command of Transcode never exits
SomeCommandHangs == \E w \in DOMAIN wpc : wpc[w] = "hung"

\* C25: Transcode returns only after every goroutine it launched has
\* finished, so it has not returned in any state in which a command never
\* exits (nothing times out or cancels); and when goroutines are scheduled
\* fairly and every command exits, with whatever error, Transcode eventually
\* returns (or has failed in its setup).
C25_ReturnsIffEveryCommandExits ==
  /\ [](tpc = "returned" =>
         /\ DOMAIN wpc = DOMAIN allowed
         /\ \A w \in DOMAIN wpc : wpc[w] \in {"done", "skipped"})
  /\ [](SomeCommandHangs => tpc # "returned")
  /\ <>(tpc \in {"returned", "failed"} \/ SomeCommandHangs)

\* Transcode returned after two commands, one of which exited with an error
C25_Witness ==
  /\ tpc = "returned"
  /\ Len(workers) = 2
  /\ Cardinality(Failed) = 1
  /\ Cardinality(Encoded) = 1

\* C26: the channel `done` is closed once, when Transcode returns, which is
\* after every encode goroutine has finished; the logging goroutine stops
\* only after that, and once the channel is closed it eventually stops.
C26_TickerStopsOnceAfterWorkers ==
  /\ [](done <= 1)
  /\ [](tpc = "returned" => done = 1)
  /\ [](done = 1 =>
         /\ tpc = "returned"
         /\ \A w \in DOMAIN wpc : wpc[w] \in {"done", "skipped"})
  /\ [](ticker = "stopped" => done = 1)
  /\ (done = 1) ~> (ticker = "stopped")

\* the logging goroutine has stopped after two goroutines reported progress
C26_Witness ==
  /\ ticker = "stopped"
  /\ Len(workers) = 2
  /\ Cardinality(DOMAIN progressMap) = 2

(***************************************************************************)
(* Properties of GenerateMasterManifest's write mode                       *)
(***************************************************************************)
\* C27: for a segment result that passes validation, of format hls or dash,
\* GenerateMasterManifest reconciles with the existing top-level manifest
\* exactly when the preserve flag is set, and writes a fresh one exactly
\* when it is not.
C27_WriteModeByPreserveFlag ==
  (mcall.op # "none" /\ mcall.err # "validate") =>
    /\ preserve => mcall.op = "reconcile"
    /\ ~ preserve => mcall.op \in {"generate", "dash"}

(***************************************************************************)
(* Properties of Run and its ClientContext                                 *)
(***************************************************************************)
\* the names of the sub-manifests a run's variants can get
SubManifestOf(v) ==
  ManifestPath(LabelFromFilename(v.OutputFilename), format)

\* C28: what a run produces does not depend on its ClientContext.  Whatever
\* the context, the decision engine's step does not end the run; the allowed
\* variants are those the profile and the source alone determine; the
\* produced variants are the copies and the encodes whose commands
\* succeeded, the sub-manifests belong to produced variants, and each
\* Success flag is false exactly when its error list is not empty.
C28_IndependentOfClientContext ==
  /\ call.op = "SelectPreset" => (~ call.err /\ tpc # "idle")
  /\ Filtered => allowed = SelectSeq(profile, Eligible)
  /\ tpc = "returned" =>
       /\ {result.Variants[i].OutputFilename :
             i \in {k \in DOMAIN result.Variants :
                      IsEncodedVariant(result.Variants[k])}}
            = {EncodedName(w) : w \in Encoded}
       /\ result.Success <=> result.Errors = <<>>
  /\ spc = "returned" =>
       /\ \A i \in DOMAIN segResult.Manifests :
            \E k \in DOMAIN result.Variants :
              segResult.Manifests[i] = SubManifestOf(result.Variants[k])
       /\ Len(segResult.Manifests) + Len(segResult.Errors)
            = Len(result.Variants)
       /\ segResult.Success <=> segResult.Errors = <<>>

\* a starved client's run, whose decision fell back to the default preset,
\* has produced and listed renditions
C28_Witness ==
  /\ PipelineDone
  /\ ctx.BandwidthKbps > 0
  /\ call.fallback
  /\ Len(result.Variants) = 2
  /\ segResult.Manifests # <<>>

(***************************************************************************)
(* Properties of repeated AdjustResolution calls                           *)
(***************************************************************************)
\* C29: feeding AdjustResolution's output back in under an unchanged context
\* is a fixed point: a call that directly follows another call, the context
\* untouched in between, returns the preset the first one returned.
C29_AdjustIsFixedPoint ==
  [][(IsAdjust /\ call'.op = "AdjustResolution" /\ ctx' = ctx)
       => (call'.in = call.out /\ call'.out = call.out)]_vars

\* a second call under the context that had lifted 240p to 1080p
C29_Witness ==
  /\ Adaptive /\ ctx.RecentFailures = 0
  /\ ctx.BandwidthKbps = 5000
  /\ call.in.Label = <<"1","0","8","0","p">>
  /\ call.out = call.in
  /\ {p \in Catalog : p.MinBitrate <= ctx.BandwidthKbps
                        /\ p.Height < call.in.Height} # {}

\* C30: in every chain of calls, each fed the previous result, an adaptive
\* call that no override decides never returns a taller preset when
\* RecentFailures >= 3, never a shorter one when RecentFailures = 0, and
\* returns a preset other than its input only if that preset's MinBitrate is
\* within the bandwidth estimate.
C30_StepsKeepDirectionAndBudget ==
  Adaptive =>
    /\ current = call.out
    /\ ctx.RecentFailures >= 3 => call.out.Height <= call.in.Height
    /\ ctx.RecentFailures = 0 => call.out.Height >= call.in.Height
    /\ call.out # call.in => call.out.MinBitrate <= ctx.BandwidthKbps

\* a drop from a caller's own 4320p preset to the smallest one in budget
C30_Witness ==
  /\ Adaptive /\ ctx.RecentFailures >= 3
  /\ call.in.Height = 4320
  /\ call.out.Label = <<"2","4","0","p">>
  /\ ctx.BandwidthKbps = 1000

(***************************************************************************)
(* Properties of SelectPreset under a bandwidth estimate                   *)
(***************************************************************************)
\* C31: whenever the context carries a bandwidth estimate B > 0, the preset
\* SelectPreset returns has MinBitrate <= B, for every source size, the
\* default fallback included.
C31_SelectedWithinBandwidth ==
  (IsSelect /\ ~ call.err /\ ~ call.nilCtx /\ ctx.BandwidthKbps > 0)
    => call.out.MinBitrate <= ctx.BandwidthKbps

(***************************************************************************)
(* Properties of the Success flags during a run                            *)
(***************************************************************************)
\* C32: in every state of a Transcode or SegmentMedia run, the states while
\* workers are still running included, the result's Success flag is false
\* exactly when its error list is not empty, and a Success flag that is
\* false never becomes true again.
C32_SuccessTracksErrors ==
  /\ [] /\ ~ result.nil => (~ result.Success <=> result.Errors # <<>>)
        /\ ~ segResult.nil
             => (~ segResult.Success <=> segResult.Errors # <<>>)
  /\ [][ /\ (~ result.nil /\ ~ result.Success) => ~ result'.Success
         /\ (~ segResult.nil /\ ~ segResult.Success)
              => ~ segResult'.Success ]_vars

\* a segment worker has recorded its failure while another is still running
C32_Witness ==
  /\ spc = "wait"
  /\ result.Success
  /\ ~ segResult.Success
  /\ Len(segResult.Errors) = 1
  /\ \E w \in DOMAIN swpc : swpc[w] \notin {"done", "hung"}

(***************************************************************************)
(* Properties of the segment workers' targets                              *)
(***************************************************************************)
\* the produced variants handed to SegmentMedia are pairwise distinct
DistinctProduced ==
  \A i, j \in DOMAIN transcoded.Variants :
    i # j => transcoded.Variants[i] # transcoded.Variants[j]

\* segment worker w has started and not yet returned
SegmentRunning(w) == swpc[w] \notin {"done", "hung"}

\* C33: distinct produced variants are segmented into distinct directories
\* and sub-manifest paths: no two segment workers running at the same time
\* target the same <output-dir>/<label>/ directory (and so the same
\* sub-manifest file), and Manifests never holds the same path twice, also
\* for a ladder that lists one label at two bitrates.
C33_DistinctSegmentTargets ==
  (spc \in {"wait", "returned"} /\ DistinctProduced) =>
    /\ \A w1, w2 \in DOMAIN swpc :
         (w1 # w2 /\ SegmentRunning(w1) /\ SegmentRunning(w2))
           => SegLabel(w1) # SegLabel(w2)
    /\ \A i, j \in DOMAIN segResult.Manifests :
         i # j => segResult.Manifests[i] # segResult.Manifests[j]

(***************************************************************************)
(* Properties of the segment duration handed to the external tool          *)
(***************************************************************************)
\* C34: for every accepted profile (SegmentLength >= 0) and every media
\* descriptor (keyframe interval >= 0, zero and values below 0.5 included),
\* the segment duration in the command SegmentMedia builds is an integer
\* of at least 1.
C34_SegmentDurationAtLeastOne ==
  \A w \in DOMAIN cmd :
    cmd[w].tool = "ffmpeg" => (cmd[w].segLen \in Nat /\ cmd[w].segLen >= 1)

(***************************************************************************)
(* Properties of the names Transcode gives its outputs                     *)
(***************************************************************************)
\* C35: for every input slug and every allowed variant with label L and
\* bitrate b, LabelFromFilename applied to the file name Transcode builds
\* for its encode, "<slug>_<L>_<b>bps.mp4", returns L.
C35_LabelRoundTrip ==
  revision = "progress" =>
    \A w \in DOMAIN workers :
      (\E k \in DOMAIN result.Variants :
         result.Variants[k].OutputFilename = EncodedName(w))
        => LabelFromFilename(EncodedName(w)) = workers[w].Resolution

(***************************************************************************)
(* Properties of a first run with the preserve flag                        *)
(***************************************************************************)
\* C36: when the preserve flag is set and no master.m3u8 exists yet, the
\* call of GenerateMasterManifest on an HLS result with sub-manifests
\* returns a read_file error and writes no manifest, and the pipeline run
\* returns that error and no report, also when every encode and every
\* segmentation succeeded.
C36_PreserveOnFirstRunFails ==
  (/\ mcall.op # "none"
   /\ preserve
   /\ ToLower(format) = Chars("hls")
   /\ segResult.Manifests # <<>>) =>
    /\ mcall.op = "reconcile"
    /\ mcall.err = "read_file"
    /\ mcall.path = <<>>
    /\ master = NoMaster
    /\ \A thumbnailErr \in BOOLEAN : Report(thumbnailErr).nil

\* the run whose two encodes and two segmentations all succeeded ends in
\* the read_file error
C36_Witness ==
  /\ preserve
  /\ mcall.err = "read_file"
  /\ result.Errors = <<>>
  /\ segResult.Errors = <<>>
  /\ Len(segResult.Manifests) = 2
  /\ master = NoMaster

(***************************************************************************)
(* Properties of the labels used downstream of the catalog                 *)
(***************************************************************************)
\* the height a label "<n>p" names
NominalHeight(label) == ParseInt(SubSeq(label, 1, Len(label) - 1))

Resolves(label) == ~ DimensionsForLabel(StandardPresets, label).err

\* C37: every label of the manifest's canonical order (144p .. 2160p) and
\* every entry of DefaultVariants resolves via DimensionsForLabel, so every
\* DefaultVariants entry of the ladder whose nominal height is at most the
\* source's is kept by the variant filter and handed to an encode worker.
C37_DownstreamLabelsResolve ==
  Filtered =>
    /\ \A k \in DOMAIN CanonicalOrder : Resolves(CanonicalOrder[k])
    /\ \A k \in DOMAIN DefaultVariants :
         Resolves(DefaultVariants[k].Resolution)
    /\ \A i \in DOMAIN profile :
         (/\ \E k \in DOMAIN DefaultVariants : DefaultVariants[k] = profile[i]
          /\ NominalHeight(profile[i].Resolution) <= media.Height) =>
           /\ \E k \in DOMAIN allowed : allowed[k] = profile[i]
           /\ (revision = "progress" /\ tpc \in {"wait", "returned"})
                => \E w \in DOMAIN workers : workers[w] = profile[i]

(***************************************************************************)
(* Properties of the bandwidth a synthesized master advertises             *)
(***************************************************************************)
\* C38: in a master.m3u8 synthesized from newly produced sub-manifests, the
\* BANDWIDTH estimateBitrate gives is non-decreasing along the canonical
\* resolution order 144p .. 2160p: an entry of a higher-resolution label
\* never advertises less than an entry of a lower-resolution label.
C38_BandwidthFollowsResolution ==
  (mcall.op = "generate" /\ mcall.err = "none") =>
    LET entries == parseHLSManifest(manRevision, master.m3u8)
    IN  \A i, j \in DOMAIN entries :
          (/\ Rank(entries[i].Label) > 0
           /\ Rank(entries[i].Label) < Rank(entries[j].Label))
            => entries[i].Bitrate <= entries[j].Bitrate

=============================================================================
